---- MODULE Spec2Model ----
(***************************************************************************)
(* Response normalisation layer of the Alpha Vantage Go wrapper: the       *)
(* decoders of package models (time series, quote, indicator, crypto).     *)
(*                                                                         *)
(* A JSON document is a tagged value [k, v].  The text of a JSON string is *)
(* a TLA+ string; Chars gives its characters, on which strconv.ParseFloat, *)
(* strconv.ParseInt and time.Parse are computed.  A float64 is the exact   *)
(* decimal <<mantissa, scale>> (mantissa / 10^scale, no trailing zero); a  *)
(* time.Time is <<day, second of the day, nanosecond>>.                    *)
(***************************************************************************)
EXTENDS Integers, Sequences, FiniteSets, TLC

VARIABLES
    target,   \* the record handed to the decoder: [kind, rec]
    data,     \* the JSON document handed to the decoder
    name,     \* the indicatorName argument of UnmarshalIndicatorJSON
    pre,      \* target.rec as it was when the decoder was entered
    err,      \* what the decoder returned: "nil" or the error's class
    panicked, \* the call ended in a run-time panic instead of returning
    pc,       \* "idle" | "ready" (bytes in hand) | "done" (the call is over)
    decodes,  \* decodes made into the current target
    function, \* the API function a method of Client asked for; "" without one
    calls     \* the decoder calls of concurrent callers, each with its locals

vars == <<target, data, name, pre, err, panicked, pc, decodes, function, calls>>

\* Entries per series object of a sampled payload.
MaxEntries == 2
\* Decodes a caller makes into one record before it takes a new one.
MaxDecodes == 2

(***************************************************************************)
(* JSON values                                                             *)
(***************************************************************************)
JNull == [k |-> "null", v |-> 0]
JStr(s) == [k |-> "string", v |-> s]
JNum(n) == [k |-> "number", v |-> n]
JArr(a) == [k |-> "array", v |-> a]
JObj(f) == [k |-> "object", v |-> f]
\* Bytes that are not a JSON document.
JInvalid == [k |-> "invalid", v |-> 0]

IsObj(j) == j.k = "object"
IsStr(j) == j.k = "string"

\* The object with no member.
EmptyObj == JObj(<<>>)

\* The sequences that list every element of S once: the orders in which a Go
\* range statement may visit the keys of a map.
RECURSIVE Orders(_)
Orders(S) ==
    IF S = {} THEN {<<>>}
    ELSE UNION {{<<x>> \o o : o \in Orders(S \ {x})} : x \in S}

(***************************************************************************)
(* Characters of the strings that the decoders parse                       *)
(***************************************************************************)
Chars ==
    "" :> <<>>
    @@ "330.00" :> <<"3","3","0",".","0","0">>
    @@ "335.00" :> <<"3","3","5",".","0","0">>
    @@ "329.00" :> <<"3","2","9",".","0","0">>
    @@ "334.00" :> <<"3","3","4",".","0","0">>
    @@ "331.50" :> <<"3","3","1",".","5","0">>
    @@ "331.5" :> <<"3","3","1",".","5">>
    @@ "1000000" :> <<"1","0","0","0","0","0","0">>
    @@ "2000" :> <<"2","0","0","0">>
    @@ "0.10" :> <<"0",".","1","0">>
    @@ "60" :> <<"6","0">>
    @@ "N/A" :> <<"N","/","A">>
    @@ "null" :> <<"n","u","l","l">>
    @@ "2023-09-07" :> <<"2","0","2","3","-","0","9","-","0","7">>
    @@ "2023-09-08" :> <<"2","0","2","3","-","0","9","-","0","8">>
    @@ "2023-13-45" :> <<"2","0","2","3","-","1","3","-","4","5">>
    @@ "2023-09-07 16:00:00" :>
        <<"2","0","2","3","-","0","9","-","0","7"," ","1","6",":","0","0",":",
          "0","0">>
    @@ "2023-09-08 09:30:00" :>
        <<"2","0","2","3","-","0","9","-","0","8"," ","0","9",":","3","0",":",
          "0","0">>
    @@ "2023-09-08 9:30:00" :>
        <<"2","0","2","3","-","0","9","-","0","8"," ","9",":","3","0",":","0",
          "0">>
    @@ "2023-09-07 16:00:00.5" :>
        <<"2","0","2","3","-","0","9","-","0","7"," ","1","6",":","0","0",":",
          "0","0",".","5">>
    @@ "2023-09-07 16:00" :>
        <<"2","0","2","3","-","0","9","-","0","7"," ","1","6",":","0","0">>
    @@ "2023-09-08 09:30" :>
        <<"2","0","2","3","-","0","9","-","0","8"," ","0","9",":","3","0">>
    @@ "2023-09-08 9:30" :>
        <<"2","0","2","3","-","0","9","-","0","8"," ","9",":","3","0">>
    @@ "Time Series" :> <<"T","i","m","e"," ","S","e","r","i","e","s">>
    @@ "Meta Data" :> <<"M","e","t","a"," ","D","a","t","a">>
    @@ "Error Message" :> <<"E","r","r","o","r"," ","M","e","s","s","a","g","e">>
    @@ "Time Series (1min)" :>
        <<"T","i","m","e"," ","S","e","r","i","e","s"," ","(","1","m","i","n",
          ")">>
    @@ "Time Series (5min)" :>
        <<"T","i","m","e"," ","S","e","r","i","e","s"," ","(","5","m","i","n",
          ")">>
    @@ "Time Series (Daily)" :>
        <<"T","i","m","e"," ","S","e","r","i","e","s"," ","(","D","a","i","l",
          "y",")">>
    @@ "Time Series (Daily Adjusted)" :>
        <<"T","i","m","e"," ","S","e","r","i","e","s"," ","(","D","a","i","l",
          "y"," ","A","d","j","u","s","t","e","d",")">>
    @@ "Weekly Time Series" :>
        <<"W","e","e","k","l","y"," ","T","i","m","e"," ","S","e","r","i","e",
          "s">>
    @@ "Weekly Adjusted Time Series" :>
        <<"W","e","e","k","l","y"," ","A","d","j","u","s","t","e","d"," ","T",
          "i","m","e"," ","S","e","r","i","e","s">>
    @@ "Monthly Time Series" :>
        <<"M","o","n","t","h","l","y"," ","T","i","m","e"," ","S","e","r","i",
          "e","s">>
    @@ "Monthly Adjusted Time Series" :>
        <<"M","o","n","t","h","l","y"," ","A","d","j","u","s","t","e","d"," ",
          "T","i","m","e"," ","S","e","r","i","e","s">>
    @@ "Time Series (Digital Currency Daily)" :>
        <<"T","i","m","e"," ","S","e","r","i","e","s"," ","(","D","i","g","i",
          "t","a","l"," ","C","u","r","r","e","n","c","y"," ","D","a","i","l",
          "y",")">>
    @@ "Time Series (Digital Currency Weekly)" :>
        <<"T","i","m","e"," ","S","e","r","i","e","s"," ","(","D","i","g","i",
          "t","a","l"," ","C","u","r","r","e","n","c","y"," ","W","e","e","k",
          "l","y",")">>
    @@ "Technical Analysis: SMA" :>
        <<"T","e","c","h","n","i","c","a","l"," ","A","n","a","l","y","s","i",
          "s",":"," ","S","M","A">>
    @@ "Technical Analysis: EMA" :>
        <<"T","e","c","h","n","i","c","a","l"," ","A","n","a","l","y","s","i",
          "s",":"," ","E","M","A">>
    @@ "Technical Analysis: BBANDS" :>
        <<"T","e","c","h","n","i","c","a","l"," ","A","n","a","l","y","s","i",
          "s",":"," ","B","B","A","N","D","S">>
    @@ "Global Quote" :> <<"G","l","o","b","a","l"," ","Q","u","o","t","e">>
    @@ "Realtime Currency Exchange Rate" :>
        <<"R","e","a","l","t","i","m","e"," ","C","u","r","r","e","n","c","y",
          " ","E","x","c","h","a","n","g","e"," ","R","a","t","e">>
    @@ "Technical Analysis: " :>
        <<"T","e","c","h","n","i","c","a","l"," ","A","n","a","l","y","s","i",
          "s",":"," ">>
    @@ "SMA" :> <<"S","M","A">>
    @@ "EMA" :> <<"E","M","A">>
    @@ "BBANDS" :> <<"B","B","A","N","D","S">>
    @@ "-1.50" :> <<"-","1",".","5","0">>

DigitVal ==
    "0" :> 0 @@ "1" :> 1 @@ "2" :> 2 @@ "3" :> 3 @@ "4" :> 4
    @@ "5" :> 5 @@ "6" :> 6 @@ "7" :> 7 @@ "8" :> 8 @@ "9" :> 9

IsDigit(c) == c \in DOMAIN DigitVal
AllDigits(cs) == \A i \in 1..Len(cs) : IsDigit(cs[i])

\* The number a run of decimal digits spells (0 for the empty run).
RECURSIVE Num(_)
Num(cs) ==
    IF cs = <<>> THEN 0
    ELSE 10 * Num(SubSeq(cs, 1, Len(cs) - 1)) + DigitVal[cs[Len(cs)]]

Tail2(cs, n) == SubSeq(cs, n, Len(cs))

(***************************************************************************)
(* strconv                                                                 *)
(***************************************************************************)
\* float64 zero value.
F0 == <<0, 0>>

\* mantissa / 10^scale without trailing zeros in the fraction.
RECURSIVE Normal(_, _)
Normal(m, sc) ==
    IF sc > 0 /\ m % 10 = 0 THEN Normal(m \div 10, sc - 1) ELSE <<m, sc>>

\* Position of the first "." in cs, 0 when there is none.
DotAt(cs) ==
    IF \E i \in 1..Len(cs) : cs[i] = "."
    THEN CHOOSE i \in 1..Len(cs) : cs[i] = "." /\ \A j \in 1..(i - 1) : cs[j] # "."
    ELSE 0

\* strconv.ParseFloat(s, 64) on decimal text: [sign] digits [. digits], at
\* least one digit.  [ok, val]; ok = FALSE is a *NumError.
ParseUnsignedFloat(cs) ==
    LET Parts(ip, fp) ==
            IF AllDigits(ip) /\ AllDigits(fp) /\ Len(ip) + Len(fp) > 0
            THEN [ok |-> TRUE, val |-> Normal(Num(ip \o fp), Len(fp))]
            ELSE [ok |-> FALSE, val |-> F0]
        Split(d) ==
            Parts(IF d = 0 THEN cs ELSE SubSeq(cs, 1, d - 1),
                  IF d = 0 THEN <<>> ELSE Tail2(cs, d + 1))
    IN  Split(DotAt(cs))

ParseFloat(cs) ==
    LET Signed(sign, r) ==
            IF r.ok /\ sign = "-"
            THEN [ok |-> TRUE, val |-> <<0 - r.val[1], r.val[2]>>]
            ELSE r
        HasSign == cs # <<>> /\ cs[1] \in {"+", "-"}
    IN  Signed(IF HasSign THEN cs[1] ELSE "",
               ParseUnsignedFloat(IF HasSign THEN Tail(cs) ELSE cs))

\* strconv.ParseInt(s, 10, 64): [sign] digits.
ParseInt(cs) ==
    LET body == IF cs # <<>> /\ cs[1] \in {"+", "-"} THEN Tail(cs) ELSE cs
    IN  IF body # <<>> /\ AllDigits(body)
        THEN [ok |-> TRUE,
              val |-> IF cs[1] = "-" THEN 0 - Num(body) ELSE Num(body)]
        ELSE [ok |-> FALSE, val |-> 0]

(***************************************************************************)
(* time.Parse                                                              *)
(***************************************************************************)
LayoutDate == "2006-01-02"
LayoutSeconds == "2006-01-02 15:04:05"
LayoutMinutes == "2006-01-02 15:04"

IsLeap(y) == y % 4 = 0 /\ (y % 100 # 0 \/ y % 400 = 0)
DaysIn(m, y) ==
    IF m = 2 THEN (IF IsLeap(y) THEN 29 ELSE 28)
    ELSE IF m \in {4, 6, 9, 11} THEN 30 ELSE 31

\* An instant as <<day, second of the day, nanosecond>>; day grows with the
\* calendar.  Equal instants are equal triples.
Instant(y, m, d, hh, mi, ss, ns) ==
    <<(y * 12 + (m - 1)) * 31 + (d - 1), (hh * 60 + mi) * 60 + ss, ns>>

\* Time.Before
Before(a, b) ==
    \/ a[1] < b[1]
    \/ (a[1] = b[1] /\ a[2] < b[2])
    \/ (a[1] = b[1] /\ a[2] = b[2] /\ a[3] < b[3])

\* The zero time.Time: January 1, year 1, 00:00:00 UTC.
ZeroTime == Instant(1, 1, 1, 0, 0, 0, 0)

BadTime == [ok |-> FALSE, t |-> ZeroTime]

\* "2006-01-02": four, two and two digits, fixed width.  [ok, y, m, d, rest].
ParseDatePart(cs) ==
    LET Date(y, m, d) ==
            [ok |-> m \in 1..12 /\ d >= 1 /\ d <= DaysIn(m, y),
             y |-> y, m |-> m, d |-> d, rest |-> Tail2(cs, 11)]
    IN  IF /\ Len(cs) >= 10
           /\ AllDigits(SubSeq(cs, 1, 4)) /\ cs[5] = "-"
           /\ AllDigits(SubSeq(cs, 6, 7)) /\ cs[8] = "-"
           /\ AllDigits(SubSeq(cs, 9, 10))
        THEN Date(Num(SubSeq(cs, 1, 4)), Num(SubSeq(cs, 6, 7)),
                  Num(SubSeq(cs, 9, 10)))
        ELSE [ok |-> FALSE, y |-> 0, m |-> 0, d |-> 0, rest |-> <<>>]

\* " 15": a space, then an hour of one or two digits.  [ok, n, rest].
ParseHourPart(cs) ==
    LET Hour(n, rest) == [ok |-> n < 24, n |-> n, rest |-> rest]
    IN  IF Len(cs) >= 2 /\ cs[1] = " " /\ IsDigit(cs[2])
        THEN IF Len(cs) >= 3 /\ IsDigit(cs[3])
             THEN Hour(Num(SubSeq(cs, 2, 3)), Tail2(cs, 4))
             ELSE Hour(Num(SubSeq(cs, 2, 2)), Tail2(cs, 3))
        ELSE [ok |-> FALSE, n |-> 0, rest |-> <<>>]

\* ":04" or ":05": a colon, then exactly two digits below 60.  [ok, n, rest].
ParseSixtieth(cs) ==
    LET Sixtieth(n) == [ok |-> n < 60, n |-> n, rest |-> Tail2(cs, 4)]
    IN  IF Len(cs) >= 3 /\ cs[1] = ":" /\ AllDigits(SubSeq(cs, 2, 3))
        THEN Sixtieth(Num(SubSeq(cs, 2, 3)))
        ELSE [ok |-> FALSE, n |-> 0, rest |-> <<>>]

\* A fractional second after the seconds, which time.Parse reads although the
\* layout has none: "." or "," and digits, of which nine count.  [ns, rest];
\* without a digit behind the mark nothing is read.
ParseFraction(cs) ==
    LET Digits(n) == SubSeq(cs, 2, 1 + (IF n > 9 THEN 9 ELSE n))
        Scaled(ds) == Num(ds \o [i \in 1..(9 - Len(ds)) |-> "0"])
        Run(n) == [ns |-> Scaled(Digits(n)), rest |-> Tail2(cs, n + 2)]
    IN  IF Len(cs) >= 2 /\ cs[1] \in {".", ","} /\ IsDigit(cs[2])
        THEN Run(Cardinality({i \in 2..Len(cs) : AllDigits(SubSeq(cs, 2, i))}))
        ELSE [ns |-> 0, rest |-> cs]

\* time.Parse(layout, value) for the three layouts of the decoders.  Text after
\* the last element of the layout is an error ("extra text").
ParseTime(layout, cs) ==
    LET Whole(dp, hp, mp, sp, fp) ==
            IF fp.rest = <<>>
            THEN [ok |-> TRUE,
                  t |-> Instant(dp.y, dp.m, dp.d, hp.n, mp.n, sp.n, fp.ns)]
            ELSE BadTime
        Clock(dp, hp, mp, sp) ==
            IF ~hp.ok \/ ~mp.ok THEN BadTime
            ELSE IF layout = LayoutMinutes
            THEN IF mp.rest = <<>>
                 THEN [ok |-> TRUE,
                       t |-> Instant(dp.y, dp.m, dp.d, hp.n, mp.n, 0, 0)]
                 ELSE BadTime
            ELSE IF sp.ok THEN Whole(dp, hp, mp, sp, ParseFraction(sp.rest))
                 ELSE BadTime
        Seconds(dp, hp, mp) == Clock(dp, hp, mp, ParseSixtieth(mp.rest))
        Minutes(dp, hp) == Seconds(dp, hp, ParseSixtieth(hp.rest))
        Date(dp) ==
            IF ~dp.ok THEN BadTime
            ELSE IF layout = LayoutDate
            THEN IF dp.rest = <<>>
                 THEN [ok |-> TRUE, t |-> Instant(dp.y, dp.m, dp.d, 0, 0, 0, 0)]
                 ELSE BadTime
            ELSE Minutes(dp, ParseHourPart(dp.rest))
    IN  Date(ParseDatePart(cs))

\* strings.HasPrefix
HasPrefix(s, prefix) ==
    LET Starts(cs, ps) == Len(cs) >= Len(ps) /\ SubSeq(cs, 1, Len(ps)) = ps
    IN  Starts(Chars[s], Chars[prefix])

(***************************************************************************)
(* Records of package models and their zero values                         *)
(***************************************************************************)
ZeroMetaData ==
    [Information |-> "", Symbol |-> "", LastRefreshed |-> "", Interval |-> "",
     OutputSize |-> "", TimeZone |-> "", TimePeriod |-> F0, SeriesType |-> "",
     VolumeFactor |-> ""]

ZeroOHLCV ==
    [Timestamp |-> ZeroTime, Open |-> F0, High |-> F0, Low |-> F0,
     Close |-> F0, Volume |-> 0]

ZeroAdjustedOHLCV ==
    [Timestamp |-> ZeroTime, Open |-> F0, High |-> F0, Low |-> F0,
     Close |-> F0, Volume |-> 0, AdjustedClose |-> F0, Dividend |-> F0]

\* TimeSeriesIntraday{}, TimeSeriesDaily{}, ... : metadata and a nil slice.
ZeroTimeSeries == [MetaData |-> ZeroMetaData, TimeSeries |-> <<>>]

(***************************************************************************)
(* sort                                                                    *)
(***************************************************************************)
\* s is ascending in Timestamp: no entry is before its predecessor.
Sorted(s) ==
    \A i \in 1..(Len(s) - 1) : ~Before(s[i + 1].Timestamp, s[i].Timestamp)

\* x put last, wherever it belongs: an insertion that does not look.
InsertLast(s, x) == Append(s, x)

\* x put before the entries of the sorted s that are not before it: among
\* entries of equal Timestamp the later one comes first.
InsertBeforeEquals(s, x) ==
    LET n == Cardinality({i \in 1..Len(s) : Before(s[i].Timestamp, x.Timestamp)})
    IN  SubSeq(s, 1, n) \o <<x>> \o SubSeq(s, n + 1, Len(s))

\* x put in its place unless s has an entry of the same Timestamp: a sort that
\* keeps one entry per instant.
InsertOnce(s, x) ==
    LET n == Cardinality({i \in 1..Len(s) : ~Before(x.Timestamp, s[i].Timestamp)})
    IN  IF \E i \in 1..Len(s) : s[i].Timestamp = x.Timestamp THEN s
        ELSE SubSeq(s, 1, n) \o <<x>> \o SubSeq(s, n + 1, Len(s))

\* x put behind the entries of the sorted s that are not after it.
InsertStable(s, x) ==
    LET n == Cardinality({i \in 1..Len(s) : ~Before(x.Timestamp, s[i].Timestamp)})
    IN  SubSeq(s, 1, n) \o <<x>> \o SubSeq(s, n + 1, Len(s))

\* The slice as it was handed in: a sort that was left out.
SliceAsAppended(s) == s

\* sort.SliceStable(s, func(i, j) { return s[i].Timestamp.Before(s[j].Timestamp) })
RECURSIVE SliceStable(_)
SliceStable(s) ==
    IF s = <<>> THEN <<>>
    ELSE InsertStable(SliceStable(SubSeq(s, 1, Len(s) - 1)), s[Len(s)])

\* sort.Slice with the same less: sorted, and no order promised among entries
\* of equal Timestamp, so every sorted arrangement of s is a possible result.
Slice(s) ==
    {r \in {[i \in 1..Len(s) |-> s[o[i]]] : o \in Orders(1..Len(s))} : Sorted(r)}

(***************************************************************************)
(* encoding/json                                                           *)
(***************************************************************************)
\* A struct field tagged ",string" (float64 or int) given the member jv; old is
\* what the field holds.  JSON null and the quoted text null leave the field as
\* it is; empty text, text that does not parse and a value that is not quoted
\* are errors that json keeps while it decodes on; text that does not start
\* like a number makes it stop there (abort).  [bad, abort, val].
StringTagged(kind, jv, old) ==
    LET Parsed(r) ==
            IF r.ok THEN [bad |-> FALSE, abort |-> FALSE, val |-> r.val]
            ELSE [bad |-> TRUE, abort |-> FALSE, val |-> old]
        Text(cs) ==
            IF cs = <<"n", "u", "l", "l">>
            THEN [bad |-> FALSE, abort |-> FALSE, val |-> old]
            ELSE IF cs = <<>> THEN [bad |-> TRUE, abort |-> FALSE, val |-> old]
            ELSE IF ~(cs[1] = "-" \/ IsDigit(cs[1]))
            THEN [bad |-> TRUE, abort |-> TRUE, val |-> old]
            ELSE Parsed(IF kind = "int" THEN ParseInt(cs) ELSE ParseFloat(cs))
    IN  IF jv.k = "null" THEN [bad |-> FALSE, abort |-> FALSE, val |-> old]
        ELSE IF jv.k # "string" THEN [bad |-> TRUE, abort |-> FALSE, val |-> old]
        ELSE Text(Chars[jv.v])

\* The struct field for an object member: a key the object lacks leaves the
\* field as it is.
Field(obj, key, kind, old) ==
    IF key \in DOMAIN obj THEN StringTagged(kind, obj[key], old)
    ELSE [bad |-> FALSE, abort |-> FALSE, val |-> old]

\* json.Unmarshal of the value jv into the OHLCV base.  null is a no-op, a
\* value that is no object is an UnmarshalTypeError.  [err, val].
UnmarshalOHLCV(jv, base) ==
    LET Fields(o, h, l, c, v) ==
            [err |-> IF o.bad \/ h.bad \/ l.bad \/ c.bad \/ v.bad
                     THEN "json" ELSE "nil",
             abort |-> o.abort \/ h.abort \/ l.abort \/ c.abort \/ v.abort,
             val |-> [base EXCEPT !.Open = o.val, !.High = h.val, !.Low = l.val,
                                  !.Close = c.val, !.Volume = v.val]]
    IN  IF jv.k = "null" THEN [err |-> "nil", abort |-> FALSE, val |-> base]
        ELSE IF ~IsObj(jv) THEN [err |-> "json", abort |-> FALSE, val |-> base]
        ELSE Fields(Field(jv.v, "1. open", "float", base.Open),
                    Field(jv.v, "2. high", "float", base.High),
                    Field(jv.v, "3. low", "float", base.Low),
                    Field(jv.v, "4. close", "float", base.Close),
                    Field(jv.v, "5. volume", "int", base.Volume))

\* json.Unmarshal into AdjustedOHLCV: the promoted fields of the embedded OHLCV
\* and the two fields of its own.
UnmarshalAdjustedOHLCV(jv, base) ==
    LET Fields(o, a, d) ==
            [err |-> IF o.err # "nil" \/ a.bad \/ d.bad THEN "json" ELSE "nil",
             abort |-> o.abort \/ a.abort \/ d.abort,
             val |-> [o.val EXCEPT !.AdjustedClose = a.val, !.Dividend = d.val]]
    IN  IF jv.k = "null" THEN [err |-> "nil", abort |-> FALSE, val |-> base]
        ELSE IF ~IsObj(jv) THEN [err |-> "json", abort |-> FALSE, val |-> base]
        ELSE Fields(UnmarshalOHLCV(jv, base),
                    Field(jv.v, "5. adjusted close", "float", base.AdjustedClose),
                    Field(jv.v, "7. dividend amount", "float", base.Dividend))

\* A string field of a struct given the member jv: [bad, val].
StringField(obj, key, old) ==
    IF key \notin DOMAIN obj \/ obj[key].k = "null"
    THEN [bad |-> FALSE, val |-> old]
    ELSE IF IsStr(obj[key]) THEN [bad |-> FALSE, val |-> obj[key].v]
    ELSE [bad |-> TRUE, val |-> old]

\* A float64 field without ",string": a JSON number.
NumberField(obj, key, old) ==
    IF key \notin DOMAIN obj \/ obj[key].k = "null"
    THEN [bad |-> FALSE, val |-> old]
    ELSE IF obj[key].k = "number" THEN [bad |-> FALSE, val |-> <<obj[key].v, 0>>]
    ELSE [bad |-> TRUE, val |-> old]

\* json.Unmarshal of the member "Meta Data" into the TimeSeriesMetaData md by
\* its field tags.  [err, val].
UnmarshalMetaData(jv, md) ==
    LET Fields(i, s, r, n, o, z, p, t, f) ==
            [err |-> IF i.bad \/ s.bad \/ r.bad \/ n.bad \/ o.bad \/ z.bad
                        \/ p.bad \/ t.bad \/ f.bad
                     THEN "json" ELSE "nil",
             val |-> [Information |-> i.val, Symbol |-> s.val,
                      LastRefreshed |-> r.val, Interval |-> n.val,
                      OutputSize |-> o.val, TimeZone |-> z.val,
                      TimePeriod |-> p.val, SeriesType |-> t.val,
                      VolumeFactor |-> f.val]]
    IN  IF jv.k = "null" THEN [err |-> "nil", val |-> md]
        ELSE IF ~IsObj(jv) THEN [err |-> "json", val |-> md]
        ELSE Fields(StringField(jv.v, "1. Information", md.Information),
                    StringField(jv.v, "2. Symbol", md.Symbol),
                    StringField(jv.v, "3. Last Refreshed", md.LastRefreshed),
                    StringField(jv.v, "4. Interval", md.Interval),
                    StringField(jv.v, "5. Output Size", md.OutputSize),
                    StringField(jv.v, "6. Time Zone", md.TimeZone),
                    NumberField(jv.v, "5. Time Period", md.TimePeriod),
                    StringField(jv.v, "6. Series Type", md.SeriesType),
                    StringField(jv.v, "6. Volume Factor (vFactor)",
                                md.VolumeFactor))

(***************************************************************************)
(* What a call of a decoder leaves: the record, and the error it returned  *)
(* ("nil" for success) or the fact that it panicked.                       *)
(***************************************************************************)
Returned(rec, e) == [rec |-> rec, err |-> e, panicked |-> FALSE]
Panicked(rec) == [rec |-> rec, err |-> "none", panicked |-> TRUE]

\* The map[string]interface{} that json.Unmarshal makes of the document d: the
\* members of an object, the nil map for null.
RawMap(d) == IF IsObj(d) THEN d.v ELSE <<>>

\* json.Unmarshal(data, &raw) or (data, &aux) itself fails: the bytes are no
\* JSON document, or the document is neither an object nor null.
TopLevelError(d) == d.k \notin {"object", "null"}

(***************************************************************************)
(* TimeSeriesIntraday.UnmarshalJSON                                        *)
(***************************************************************************)
IntradayMetaKeys ==
    << <<"Information", "1. Information">>, <<"Symbol", "2. Symbol">>,
       <<"LastRefreshed", "3. Last Refreshed">>, <<"Interval", "4. Interval">>,
       <<"OutputSize", "5. Output Size">>, <<"TimeZone", "6. Time Zone">> >>

\* The six assignments metaData[key].(string), from the i-th on: an absent key
\* or a value that is no string panics with the earlier fields assigned.
RECURSIVE IntradayMetaData(_, _, _)
IntradayMetaData(md, obj, i) ==
    IF i > Len(IntradayMetaKeys) THEN [md |-> md, panicked |-> FALSE]
    ELSE LET f == IntradayMetaKeys[i][1]
             key == IntradayMetaKeys[i][2]
         IN  IF key \in DOMAIN obj /\ IsStr(obj[key])
             THEN IntradayMetaData([md EXCEPT ![f] = obj[key].v], obj, i + 1)
             ELSE [md |-> md, panicked |-> TRUE]

\* The inner loop over tsData, its keys visited in order: [ts, err].
RECURSIVE IntradaySeries(_, _, _)
IntradaySeries(tsData, order, acc) ==
    LET Entry(p, o) ==
            IF ~p.ok THEN [ts |-> acc, err |-> "time"]
            ELSE IF o.err # "nil" THEN [ts |-> acc, err |-> o.err]
            ELSE IntradaySeries(tsData, Tail(order), Append(acc, o.val))
        Stamped(k, p) ==
            Entry(p, UnmarshalOHLCV(tsData[k], [ZeroOHLCV EXCEPT !.Timestamp = p.t]))
        Visit(k) == Stamped(k, ParseTime(LayoutSeconds, Chars[k]))
    IN  IF order = <<>> THEN [ts |-> acc, err |-> "nil"]
        ELSE Visit(Head(order))

\* A loop that stops after the first series object it finds.
IntradayScanOfOne(raw, order, acc) ==
    LET series == {i \in DOMAIN order :
                     HasPrefix(order[i], "Time Series") /\ IsObj(raw[order[i]])}
        First(i) ==
            {IntradaySeries(raw[order[i]].v, o, acc)
             : o \in Orders(DOMAIN raw[order[i]].v)}
    IN  IF series = {} THEN {[ts |-> acc, err |-> "nil"]}
        ELSE First(CHOOSE i \in series : \A j \in series : i <= j)

\* The outer loop over raw, its keys visited in order; every inner map is
\* visited in any order.  The set of [ts, err] it can end with.
RECURSIVE IntradayScan(_, _, _)
IntradayScan(raw, order, acc) ==
    LET Inner(r) ==
            IF r.err # "nil" THEN {r} ELSE IntradayScan(raw, Tail(order), r.ts)
        Visit(key) ==
            IF ~HasPrefix(key, "Time Series")
            THEN IntradayScan(raw, Tail(order), acc)
            ELSE IF ~IsObj(raw[key])
            THEN {[ts |-> acc, err |-> "expected map for time series data"]}
            ELSE UNION {Inner(IntradaySeries(raw[key].v, o, acc))
                        : o \in Orders(DOMAIN raw[key].v)}
    IN  IF order = <<>> THEN {[ts |-> acc, err |-> "nil"]}
        ELSE Visit(Head(order))

\* The outcomes of t.UnmarshalJSON(data) for the record t and the document d.
IntradayUnmarshalJSON(t, d) ==
    LET Scanned(t1, r) ==
            IF r.err = "nil"
            THEN Returned([t1 EXCEPT !.TimeSeries = SliceStable(r.ts)], "nil")
            ELSE Returned([t1 EXCEPT !.TimeSeries = r.ts], r.err)
        Series(raw, t1) ==
            {Scanned(t1, r)
             : r \in UNION {IntradayScan(raw, o, t.TimeSeries)
                            : o \in Orders(DOMAIN raw)}}
        Meta(raw, m) ==
            IF m.panicked THEN {Panicked([t EXCEPT !.MetaData = m.md])}
            ELSE Series(raw, [t EXCEPT !.MetaData = m.md])
        Raw(raw) ==
            Meta(raw, IF "Meta Data" \in DOMAIN raw /\ IsObj(raw["Meta Data"])
                      THEN IntradayMetaData(t.MetaData, raw["Meta Data"].v, 1)
                      ELSE [md |-> t.MetaData, panicked |-> FALSE])
    IN  IF TopLevelError(d) THEN {Returned(t, "json")}
        ELSE Raw(RawMap(d))

(***************************************************************************)
(* TimeSeriesDaily, DailyAdjusted, Weekly, WeeklyAdjusted, Monthly and     *)
(* MonthlyAdjusted: UnmarshalJSON                                          *)
(***************************************************************************)
DailyKinds ==
    {"Daily", "DailyAdjusted", "Weekly", "WeeklyAdjusted", "Monthly",
     "MonthlyAdjusted"}

\* The json tag of aux.RawTimeSeries.
SeriesKey(kind) ==
    CASE kind = "Daily" -> "Time Series (Daily)"
      [] kind = "DailyAdjusted" -> "Time Series (Daily Adjusted)"
      [] kind = "Weekly" -> "Weekly Time Series"
      [] kind = "WeeklyAdjusted" -> "Weekly Adjusted Time Series"
      [] kind = "Monthly" -> "Monthly Time Series"
      [] kind = "MonthlyAdjusted" -> "Monthly Adjusted Time Series"

\* The element type of RawTimeSeries is AdjustedOHLCV.
IsAdjusted(kind) == kind \in {"DailyAdjusted", "WeeklyAdjusted", "MonthlyAdjusted"}

\* One element of the map[string]OHLCV (map[string]AdjustedOHLCV).
UnmarshalElement(kind, jv) ==
    IF IsAdjusted(kind) THEN UnmarshalAdjustedOHLCV(jv, ZeroAdjustedOHLCV)
    ELSE UnmarshalOHLCV(jv, ZeroOHLCV)

\* json.Unmarshal(data, &aux): the metadata through the embedded *Alias and
\* the series into RawTimeSeries.  A type error is kept and the rest is still
\* decoded; after an abort the members that follow in the document are not.
\* [err, abort, md, rawTimeSeries].
UnmarshalAux(kind, ts, raw) ==
    LET Aux(md, sv, elems) ==
            [err |-> IF \/ md.err # "nil"
                        \/ sv.k \notin {"object", "null"}
                        \/ \E k \in DOMAIN elems : elems[k].err # "nil"
                     THEN "json" ELSE "nil",
             abort |-> \E k \in DOMAIN elems : elems[k].abort,
             md |-> md.val,
             rawTimeSeries |-> [k \in DOMAIN elems |-> elems[k].val]]
        Series(md, sv) ==
            Aux(md, sv,
                IF IsObj(sv)
                THEN [k \in DOMAIN sv.v |-> UnmarshalElement(kind, sv.v[k])]
                ELSE <<>>)
    IN  Series(IF "Meta Data" \in DOMAIN raw
               THEN UnmarshalMetaData(raw["Meta Data"], ts.MetaData)
               ELSE [err |-> "nil", val |-> ts.MetaData],
               IF SeriesKey(kind) \in DOMAIN raw THEN raw[SeriesKey(kind)]
               ELSE JNull)

\* A loop whose entries all hold the values of the date visited last.
DailyRangeOfLast(rawTimeSeries, order, acc) ==
    [ts |-> [i \in 1..Len(order) |->
               [rawTimeSeries[order[Len(order)]]
                  EXCEPT !.Timestamp = ParseTime(LayoutDate, Chars[order[i]]).t]],
     err |-> "nil"]

\* The loop over aux.RawTimeSeries, its keys visited in order: [ts, err].
RECURSIVE DailyRange(_, _, _)
DailyRange(rawTimeSeries, order, acc) ==
    LET Entry(dateStr, p) ==
            IF ~p.ok THEN [ts |-> acc, err |-> "time"]
            ELSE DailyRange(rawTimeSeries, Tail(order),
                     Append(acc, [rawTimeSeries[dateStr] EXCEPT !.Timestamp = p.t]))
        Visit(dateStr) == Entry(dateStr, ParseTime(LayoutDate, Chars[dateStr]))
    IN  IF order = <<>> THEN [ts |-> acc, err |-> "nil"]
        ELSE Visit(Head(order))

\* The outcomes of ts.UnmarshalJSON(data) for one of the six kinds.  The
\* document null makes json.Unmarshal set the pointer aux to nil, and
\* len(aux.RawTimeSeries) then dereferences it.  When json.Unmarshal stopped
\* at an abort, "Meta Data" was decoded if it came before in the document.
DailyUnmarshalJSON(kind, ts, d) ==
    LET Ranged(ts1, r) ==
            IF r.err # "nil"
            THEN {Returned([ts1 EXCEPT !.TimeSeries = r.ts], r.err)}
            ELSE {Returned([ts1 EXCEPT !.TimeSeries = s], "nil")
                  : s \in Slice(r.ts)}
        Decoded(aux) ==
            IF aux.err # "nil"
            THEN {Returned([ts EXCEPT !.MetaData = md], aux.err)
                  : md \in IF aux.abort THEN {ts.MetaData, aux.md} ELSE {aux.md}}
            ELSE UNION {Ranged([ts EXCEPT !.MetaData = aux.md],
                               DailyRange(aux.rawTimeSeries, o, <<>>))
                        : o \in Orders(DOMAIN aux.rawTimeSeries)}
    IN  IF TopLevelError(d) THEN {Returned(ts, "json")}
        ELSE IF d.k = "null" THEN {Panicked(ts)}
        ELSE Decoded(UnmarshalAux(kind, ts, RawMap(d)))

(***************************************************************************)
(* Quote.UnmarshalJSON                                                     *)
(***************************************************************************)
ZeroQuote ==
    [Symbol |-> "", Open |-> F0, High |-> F0, Low |-> F0, Price |-> F0,
     Volume |-> 0, LatestTradingDay |-> ZeroTime, PreviousClose |-> F0,
     Change |-> F0, ChangePercent |-> ""]

\* The parsed fields in the order of the assignments: the field, its key in
\* RawQuote, how it is parsed and the error returned when that fails.
QuoteFields ==
    << <<"Open", "02. open", "float", "error parsing 'open'">>,
       <<"High", "03. high", "float", "error parsing 'high'">>,
       <<"Low", "04. low", "float", "error parsing 'low'">>,
       <<"Price", "05. price", "float", "error parsing 'price'">>,
       <<"Volume", "06. volume", "int", "error parsing 'volume'">>,
       <<"LatestTradingDay", "07. latest trading day", "time",
         "error parsing 'latest trading day'">>,
       <<"PreviousClose", "08. previous close", "float",
         "error parsing 'previous close'">>,
       <<"Change", "09. change", "float", "error parsing 'change'">> >>

\* aux.RawQuote[key]: the empty string for a key the map lacks.
RawQuoteAt(rawQuote, key) ==
    IF key \in DOMAIN rawQuote THEN rawQuote[key] ELSE ""

\* json.Unmarshal(data, &aux) for the member "Global Quote", a
\* map[string]string: [err, rawQuote].  The sampled documents have no member
\* with a tag of Alias at the top level.
UnmarshalRawQuote(raw) ==
    LET Members(obj) ==
            [err |-> IF \E k \in DOMAIN obj : obj[k].k \notin {"string", "null"}
                     THEN "json" ELSE "nil",
             rawQuote |-> [k \in DOMAIN obj |->
                             IF IsStr(obj[k]) THEN obj[k].v ELSE ""]]
        Member(gq) ==
            IF gq.k = "null" THEN [err |-> "nil", rawQuote |-> <<>>]
            ELSE IF ~IsObj(gq) THEN [err |-> "json", rawQuote |-> <<>>]
            ELSE Members(gq.v)
    IN  Member(IF "Global Quote" \in DOMAIN raw THEN raw["Global Quote"]
               ELSE JNull)

\* strconv.ParseFloat, strconv.ParseInt or time.Parse("2006-01-02"): [ok, val].
QuoteParse(kind, cs) ==
    LET Time(p) == [ok |-> p.ok, val |-> p.t]
    IN  CASE kind = "float" -> ParseFloat(cs)
          [] kind = "int" -> ParseInt(cs)
          [] kind = "time" -> Time(ParseTime(LayoutDate, cs))

\* The assignments from the i-th parsed field on: [q, err].
RECURSIVE QuoteAssign(_, _, _)
QuoteAssign(q, rawQuote, i) ==
    LET Step(f, r) ==
            IF ~r.ok THEN [q |-> q, err |-> f[4]]
            ELSE QuoteAssign([q EXCEPT ![f[1]] = r.val], rawQuote, i + 1)
        Visit(f) == Step(f, QuoteParse(f[3], Chars[RawQuoteAt(rawQuote, f[2])]))
    IN  IF i > Len(QuoteFields)
        THEN [q |-> [q EXCEPT !.ChangePercent =
                                  RawQuoteAt(rawQuote, "10. change percent")],
              err |-> "nil"]
        ELSE Visit(QuoteFields[i])

\* The outcomes of q.UnmarshalJSON(data).  As in the daily decoders the
\* document null leaves aux nil, and aux.RawQuote dereferences it.
QuoteUnmarshalJSON(q, d) ==
    LET Assigned(r) == {Returned(r.q, r.err)}
        Decoded(aux) ==
            IF aux.err # "nil" THEN {Returned(q, aux.err)}
            ELSE Assigned(QuoteAssign(
                     [q EXCEPT !.Symbol = RawQuoteAt(aux.rawQuote, "01. symbol")],
                     aux.rawQuote, 1))
    IN  IF TopLevelError(d) THEN {Returned(q, "json")}
        ELSE IF d.k = "null" THEN {Panicked(q)}
        ELSE Decoded(UnmarshalRawQuote(RawMap(d)))

(***************************************************************************)
(* UnmarshalIndicatorJSON                                                  *)
(***************************************************************************)
ZeroIndicatorResponse == [MetaData |-> ZeroMetaData, IndicatorValues |-> <<>>]

\* A switch whose first two cases assign to each other's field.
IndicatorMetaKeysCrossed ==
    << <<"Information", "1: Symbol", "string">>,
       <<"Symbol", "2: Indicator", "string">>,
       <<"LastRefreshed", "3: Last Refreshed", "string">>,
       <<"Interval", "4: Interval", "string">>,
       <<"TimePeriod", "5: Time Period", "number">>,
       <<"SeriesType", "6: Series Type", "string">>,
       <<"TimeZone", "7: Time Zone", "string">> >>

\* The cases of the switch in extractMetaData: the field, the key and the type
\* asserted for the value.
IndicatorMetaKeys ==
    << <<"Symbol", "1: Symbol", "string">>,
       <<"Information", "2: Indicator", "string">>,
       <<"LastRefreshed", "3: Last Refreshed", "string">>,
       <<"Interval", "4: Interval", "string">>,
       <<"TimePeriod", "5: Time Period", "number">>,
       <<"SeriesType", "6: Series Type", "string">>,
       <<"TimeZone", "7: Time Zone", "string">> >>

\* The switch over the keys of rawData with the cases keys, from the i-th case
\* on: a key of the table whose value is not of the asserted type panics.  The
\* order of the range does not show in the result.  [md, panicked].
RECURSIVE MetaSwitch(_, _, _, _)
MetaSwitch(md, rawData, keys, i) ==
    LET Case(f, value) ==
            IF value.k # f[3] THEN [md |-> md, panicked |-> TRUE]
            ELSE MetaSwitch(
                     [md EXCEPT ![f[1]] = IF f[3] = "number" THEN <<value.v, 0>>
                                          ELSE value.v],
                     rawData, keys, i + 1)
    IN  IF i > Len(keys) THEN [md |-> md, panicked |-> FALSE]
        ELSE IF keys[i][2] \notin DOMAIN rawData
        THEN MetaSwitch(md, rawData, keys, i + 1)
        ELSE Case(keys[i], rawData[keys[i][2]])

extractMetaData(rawData) == MetaSwitch(ZeroMetaData, rawData, IndicatorMetaKeys, 1)

\* A valueMap that keeps one member only.
ValueMapOfOne(indicatorData) ==
    LET Of(names) ==
            [err |-> "nil",
             val |-> [n \in names |-> ParseFloat(Chars[indicatorData[n].v]).val]]
        One(names) == IF names = {} THEN {} ELSE {CHOOSE n \in names : TRUE}
    IN  Of(One({n \in DOMAIN indicatorData : IsStr(indicatorData[n])}))

\* valueMap for one timestamp: the members that are strings, parsed; a member
\* that is no string is passed over.  [err, val].
ValueMap(indicatorData) ==
    LET Parsed(n) == ParseFloat(Chars[indicatorData[n].v])
        Of(names) ==
            [err |-> IF \E n \in names : ~Parsed(n).ok THEN "float" ELSE "nil",
             val |-> [n \in names |-> Parsed(n).val]]
    IN  Of({n \in DOMAIN indicatorData : IsStr(indicatorData[n])})

\* The loop over tsData, its keys visited in order: [ts, err].
RECURSIVE IndicatorRange(_, _, _)
IndicatorRange(tsData, order, acc) ==
    LET Valued(p, m) ==
            IF m.err # "nil" THEN [ts |-> acc, err |-> m.err]
            ELSE IndicatorRange(tsData, Tail(order),
                     Append(acc, [Timestamp |-> p.t, Values |-> m.val]))
        Entry(k, p) ==
            IF ~p.ok THEN [ts |-> acc, err |-> "time"]
            ELSE IF ~IsObj(tsData[k])
            THEN [ts |-> acc, err |-> "expected map for each timestamp data"]
            ELSE Valued(p, ValueMap(tsData[k].v))
        Visit(k) == Entry(k, ParseTime(LayoutMinutes, Chars[k]))
    IN  IF order = <<>> THEN [ts |-> acc, err |-> "nil"]
        ELSE Visit(Head(order))

\* expectedKey := "Technical Analysis: " + indicatorName, as the keys of raw
\* that spell it: one key or none.
ExpectedKey(raw, indicatorName) ==
    {k \in DOMAIN raw :
       Chars[k] = Chars["Technical Analysis: "] \o Chars[indicatorName]}

\* The outcomes of UnmarshalIndicatorJSON(i, data, indicatorName).
UnmarshalIndicatorJSON(i, d, indicatorName) ==
    LET Ranged(i1, r) ==
            IF r.err = "nil"
            THEN Returned([i1 EXCEPT !.IndicatorValues = SliceStable(r.ts)], "nil")
            ELSE Returned([i1 EXCEPT !.IndicatorValues = r.ts], r.err)
        Series(i1, tsData) ==
            {Ranged(i1, IndicatorRange(tsData, o, i.IndicatorValues))
             : o \in Orders(DOMAIN tsData)}
        Keyed(raw, i1, keys) ==
            IF \E k \in keys : IsObj(raw[k])
            THEN Series(i1, raw[CHOOSE k \in keys : TRUE].v)
            ELSE {Returned([i1 EXCEPT !.IndicatorValues =
                                          SliceStable(i.IndicatorValues)], "nil")}
        Meta(raw, m) ==
            IF m.panicked THEN {Panicked(i)}
            ELSE Keyed(raw, [i EXCEPT !.MetaData = m.md],
                       ExpectedKey(raw, indicatorName))
        Raw(raw) ==
            Meta(raw, IF "Meta Data" \in DOMAIN raw /\ IsObj(raw["Meta Data"])
                      THEN extractMetaData(raw["Meta Data"].v)
                      ELSE [md |-> i.MetaData, panicked |-> FALSE])
    IN  IF TopLevelError(d) THEN {Returned(i, "json")}
        ELSE Raw(RawMap(d))

(***************************************************************************)
(* UnmarshalCryptoJSON                                                     *)
(***************************************************************************)
ZeroCryptoMetaData ==
    [Information |-> "", DigitalCurrencyCode |-> "", DigitalCurrencyName |-> "",
     MarketCode |-> "", MarketName |-> "", LastRefreshed |-> "", TimeZone |-> ""]

ZeroCryptoSeriesResponse ==
    [MetaData |-> ZeroCryptoMetaData, TimeSeries |-> <<>>, IntervalLabel |-> ""]

\* The cases of the switch in extractCryptoMetaData.
CryptoMetaKeys ==
    << <<"Information", "1. Information", "string">>,
       <<"DigitalCurrencyCode", "2. Digital Currency Code", "string">>,
       <<"DigitalCurrencyName", "3. Digital Currency Name", "string">>,
       <<"MarketCode", "4. Market Code", "string">>,
       <<"MarketName", "5. Market Name", "string">>,
       <<"LastRefreshed", "6. Last Refreshed", "string">>,
       <<"TimeZone", "7. Time Zone", "string">> >>

extractCryptoMetaData(rawData) ==
    MetaSwitch(ZeroCryptoMetaData, rawData, CryptoMetaKeys, 1)

\* The six members read from valuesMap.
CryptoValueKeys ==
    {"1a. open (USD)", "2a. high (USD)", "3a. low (USD)", "4a. close (USD)",
     "5. volume", "6. market cap (USD)"}

\* x, _ := strconv.ParseFloat(valuesMap[key].(string), 64): the error is
\* dropped and x is 0 for text that does not parse.
FloatOrZero(valuesMap, key) == ParseFloat(Chars[valuesMap[key].v]).val

\* An entry that is refused when one of its six members does not parse.
CryptoTimeSeriesDataOrPanic(timestamp, valuesMap) ==
    [panicked |->
       \E key \in CryptoValueKeys :
          \/ key \notin DOMAIN valuesMap
          \/ ~IsStr(valuesMap[key])
          \/ ~ParseFloat(Chars[valuesMap[key].v]).ok,
     val |-> [Timestamp |-> timestamp, Open |-> F0, High |-> F0, Low |-> F0,
              Close |-> F0, Volume |-> F0, MarketCap |-> F0]]

\* The entry appended for one date; valuesMap[key].(string) panics for a member
\* that is absent or no string.  [panicked, val].
CryptoTimeSeriesData(timestamp, valuesMap) ==
    IF \E key \in CryptoValueKeys :
          key \notin DOMAIN valuesMap \/ ~IsStr(valuesMap[key])
    THEN [panicked |-> TRUE, val |-> <<>>]
    ELSE [panicked |-> FALSE,
          val |-> [Timestamp |-> timestamp,
                   Open |-> FloatOrZero(valuesMap, "1a. open (USD)"),
                   High |-> FloatOrZero(valuesMap, "2a. high (USD)"),
                   Low |-> FloatOrZero(valuesMap, "3a. low (USD)"),
                   Close |-> FloatOrZero(valuesMap, "4a. close (USD)"),
                   Volume |-> FloatOrZero(valuesMap, "5. volume"),
                   MarketCap |-> FloatOrZero(valuesMap, "6. market cap (USD)")]]

\* The loop over timeSeriesMap, its keys visited in order: [ts, err, panicked].
RECURSIVE CryptoRange(_, _, _)
CryptoRange(timeSeriesMap, order, acc) ==
    LET Built(e) ==
            IF e.panicked THEN [ts |-> acc, err |-> "none", panicked |-> TRUE]
            ELSE CryptoRange(timeSeriesMap, Tail(order), Append(acc, e.val))
        Entry(date, p) ==
            IF ~p.ok THEN [ts |-> acc, err |-> "time", panicked |-> FALSE]
            ELSE IF ~IsObj(timeSeriesMap[date])
            THEN [ts |-> acc, err |-> "expected map for timestamp data",
                  panicked |-> FALSE]
            ELSE Built(CryptoTimeSeriesData(p.t, timeSeriesMap[date].v))
        Visit(date) == Entry(date, ParseTime(LayoutDate, Chars[date]))
    IN  IF order = <<>> THEN [ts |-> acc, err |-> "nil", panicked |-> FALSE]
        ELSE Visit(Head(order))

\* The loop over raw, its keys visited in order, and the sort after it; every
\* inner map is visited in any order.  The outcomes it can end with.
RECURSIVE CryptoScan(_, _, _)
CryptoScan(raw, order, c) ==
    LET Inner(c1, r) ==
            IF r.panicked THEN {Panicked([c1 EXCEPT !.TimeSeries = r.ts])}
            ELSE IF r.err # "nil"
            THEN {Returned([c1 EXCEPT !.TimeSeries = r.ts], r.err)}
            ELSE CryptoScan(raw, Tail(order), [c1 EXCEPT !.TimeSeries = r.ts])
        Visit(tsKey) ==
            IF ~HasPrefix(tsKey, "Time Series")
            THEN CryptoScan(raw, Tail(order), c)
            ELSE IF ~IsObj(raw[tsKey])
            THEN {Panicked([c EXCEPT !.IntervalLabel = tsKey])}
            ELSE UNION {Inner([c EXCEPT !.IntervalLabel = tsKey],
                              CryptoRange(raw[tsKey].v, o, c.TimeSeries))
                        : o \in Orders(DOMAIN raw[tsKey].v)}
    IN  IF order = <<>>
        THEN {Returned([c EXCEPT !.TimeSeries = SliceStable(c.TimeSeries)], "nil")}
        ELSE Visit(Head(order))

\* A decoder that asserts raw["Meta Data"] to be a map without the ok check.
UnmarshalCryptoJSONAsserting(c, d) ==
    LET Series(raw, c1) ==
            UNION {CryptoScan(raw, o, c1) : o \in Orders(DOMAIN raw)}
        Meta(raw, m) ==
            IF m.panicked THEN {Panicked(c)}
            ELSE Series(raw, [c EXCEPT !.MetaData = m.md])
        Raw(raw) ==
            Meta(raw, IF "Meta Data" \in DOMAIN raw /\ IsObj(raw["Meta Data"])
                      THEN extractCryptoMetaData(raw["Meta Data"].v)
                      ELSE [md |-> c.MetaData, panicked |-> TRUE])
    IN  IF TopLevelError(d) THEN {Returned(c, "json")}
        ELSE Raw(RawMap(d))

\* The outcomes of UnmarshalCryptoJSON(c, data).
UnmarshalCryptoJSON(c, d) ==
    LET Series(raw, c1) ==
            UNION {CryptoScan(raw, o, c1) : o \in Orders(DOMAIN raw)}
        Meta(raw, m) ==
            IF m.panicked THEN {Panicked(c)}
            ELSE Series(raw, [c EXCEPT !.MetaData = m.md])
        Raw(raw) ==
            Meta(raw, IF "Meta Data" \in DOMAIN raw /\ IsObj(raw["Meta Data"])
                      THEN extractCryptoMetaData(raw["Meta Data"].v)
                      ELSE [md |-> c.MetaData, panicked |-> FALSE])
    IN  IF TopLevelError(d) THEN {Returned(c, "json")}
        ELSE Raw(RawMap(d))

(***************************************************************************)
(* json.Unmarshal into CurrencyExchangeRateResponse                        *)
(***************************************************************************)
\* The fields of ExchangeRateInfo with their json tags; every field is a
\* string.
ExchangeRateKeys ==
    << <<"FromCurrencyCode", "1. From_Currency Code">>,
       <<"FromCurrencyName", "2. From_Currency Name">>,
       <<"ToCurrencyCode", "3. To_Currency Code">>,
       <<"ToCurrencyName", "4. To_Currency Name">>,
       <<"ExchangeRate", "5. Exchange Rate">>,
       <<"LastRefreshed", "6. Last Refreshed">>,
       <<"TimeZone", "7. Time Zone">>,
       <<"BidPrice", "8. Bid Price">>,
       <<"AskPrice", "9. Ask Price">> >>

ZeroCurrencyExchangeRateResponse ==
    [ExchangeRateInfo |->
       [f \in {ExchangeRateKeys[i][1] : i \in DOMAIN ExchangeRateKeys} |-> ""]]

\* The outcomes of json.Unmarshal(data, r) for the *CurrencyExchangeRateResponse
\* r: the member "Realtime Currency Exchange Rate" fills ExchangeRateInfo field
\* by field; a member that is absent or null is passed over, and so is the
\* document null; a value of another type than the field's is a type error
\* that json keeps while it decodes on.
UnmarshalExchangeRate(r, d) ==
    LET tag == "Realtime Currency Exchange Rate"
        Fields(info, obj) ==
            [i \in DOMAIN ExchangeRateKeys |->
               StringField(obj, ExchangeRateKeys[i][2], info[ExchangeRateKeys[i][1]])]
        Filled(info, fs) ==
            Returned([r EXCEPT !.ExchangeRateInfo =
                        [f \in DOMAIN info |->
                           fs[CHOOSE i \in DOMAIN ExchangeRateKeys :
                                 ExchangeRateKeys[i][1] = f].val]],
                     IF \E i \in DOMAIN fs : fs[i].bad THEN "json" ELSE "nil")
        Info(jv) ==
            IF jv.k = "null" THEN Returned(r, "nil")
            ELSE IF ~IsObj(jv) THEN Returned(r, "json")
            ELSE Filled(r.ExchangeRateInfo, Fields(r.ExchangeRateInfo, jv.v))
    IN  IF TopLevelError(d) THEN {Returned(r, "json")}
        ELSE IF tag \notin DOMAIN RawMap(d) THEN {Returned(r, "nil")}
        ELSE {Info(RawMap(d)[tag])}

(***************************************************************************)
(* Documents the callers hand to the decoders                              *)
(***************************************************************************)
MetaFull ==
    JObj("1. Information" :> JStr("Daily Prices") @@ "2. Symbol" :> JStr("MSFT")
         @@ "3. Last Refreshed" :> JStr("2023-09-08")
         @@ "4. Interval" :> JStr("Daily") @@ "5. Output Size" :> JStr("Compact")
         @@ "6. Time Zone" :> JStr("US/Eastern"))

\* "Meta Data" as the daily endpoints send it: no "4. Interval".
MetaShort ==
    JObj("1. Information" :> JStr("Daily Prices") @@ "2. Symbol" :> JStr("IBM")
         @@ "3. Last Refreshed" :> JStr("2023-09-08")
         @@ "5. Output Size" :> JStr("Compact")
         @@ "6. Time Zone" :> JStr("US/Eastern"))

\* A known key that holds a number.
MetaBadType == JObj([MetaFull.v EXCEPT !["2. Symbol"] = JNum(7)])

EntryA ==
    JObj("1. open" :> JStr("330.00") @@ "2. high" :> JStr("335.00")
         @@ "3. low" :> JStr("329.00") @@ "4. close" :> JStr("334.00")
         @@ "5. volume" :> JStr("1000000"))

EntryB ==
    JObj("1. open" :> JStr("331.50") @@ "2. high" :> JStr("335.00")
         @@ "3. low" :> JStr("329.00") @@ "4. close" :> JStr("334.00")
         @@ "5. volume" :> JStr("2000"))

EntryAdjusted ==
    JObj(EntryA.v @@ "5. adjusted close" :> JStr("334.00")
         @@ "7. dividend amount" :> JStr("0.10"))

\* Entries that are not five (seven) quoted numbers.
EntryNA == JObj([EntryA.v EXCEPT !["1. open"] = JStr("N/A")])
EntryNullText == JObj([EntryA.v EXCEPT !["1. open"] = JStr("null")])
EntryUnquoted == JObj([EntryA.v EXCEPT !["1. open"] = JNum(330)])
EntryNoVolume ==
    JObj("1. open" :> JStr("330.00") @@ "2. high" :> JStr("335.00")
         @@ "3. low" :> JStr("329.00") @@ "4. close" :> JStr("334.00"))
EntryAdjustedNA == JObj([EntryAdjusted.v EXCEPT !["7. dividend amount"] = JStr("N/A")])

GoodEntries == {EntryA, EntryB}
OddEntries ==
    {EntryNA, EntryNullText, EntryUnquoted, EntryNoVolume, EntryAdjusted,
     EntryAdjustedNA, JStr("N/A")}

\* Timestamp keys: three in the layout (for the layouts with a clock, two of
\* them spell the same instant), and one that is not; for the layout with
\* seconds also one with a fractional second.
TimeKeys(layout) ==
    CASE layout = LayoutDate ->
           <<"2023-09-07", "2023-09-08", "2023-13-45", "2023-09-08 09:30">>
      [] layout = LayoutSeconds ->
           <<"2023-09-07 16:00:00", "2023-09-08 09:30:00", "2023-09-08 9:30:00",
             "2023-09-08", "2023-09-07 16:00:00.5">>
      [] layout = LayoutMinutes ->
           <<"2023-09-07 16:00", "2023-09-08 09:30", "2023-09-08 9:30",
             "2023-09-08 09:30:00">>

KeySet(layout) == {TimeKeys(layout)[i] : i \in 1..Len(TimeKeys(layout))}

\* Series objects of at most MaxEntries entries taken from good.
GoodSeries(layout, good) ==
    UNION {[K -> good] :
           K \in {K \in SUBSET KeySet(layout) : Cardinality(K) <= MaxEntries}}

\* Series objects with an odd entry, alone or beside a good one.
OddSeries(layout, good, odd) ==
    LET k1 == TimeKeys(layout)[1]
        k2 == TimeKeys(layout)[2]
    IN  {k2 :> e : e \in odd}
        \cup {k1 :> g @@ k2 :> e : g \in {CHOOSE x \in good : TRUE}, e \in odd}

\* Documents that are no object, and objects without the series.
NoSeriesDocs ==
    {JInvalid, JNull, JArr(<<>>), JStr("N/A"), JNum(7), EmptyObj,
     JObj("Error Message" :> JStr("Invalid API call")),
     JObj("Meta Data" :> MetaFull)}

\* Documents for a time-series decoder whose series is under key.
SeriesDocs(key, layout) ==
    LET k1 == TimeKeys(layout)[1]
    IN  {JObj("Meta Data" :> MetaFull @@ key :> JObj(s))
         : s \in GoodSeries(layout, GoodEntries)
                 \cup OddSeries(layout, GoodEntries, OddEntries)}
        \cup {JObj("Meta Data" :> m @@ key :> JObj(k1 :> EntryA))
              : m \in {MetaShort, MetaBadType, JStr("N/A")}}
        \cup {JObj(key :> JObj(k1 :> EntryB)),
              JObj("Meta Data" :> MetaFull @@ key :> JStr("N/A")),
              JObj("Meta Data" :> MetaFull @@ key :> JNull),
              JObj("Meta Data" :> MetaShort
                   @@ key :> JObj(TimeKeys(layout)[4] :> EntryA))}

\* Intraday documents with two keys that start with "Time Series".
TwoSeriesDocs ==
    LET keys == TimeKeys(LayoutSeconds)
    IN  {JObj("Meta Data" :> MetaFull
              @@ "Time Series (1min)" :> JObj(keys[a] :> EntryA)
              @@ "Time Series (5min)" :> JObj(keys[b] :> EntryB))
         : a \in {2}, b \in {1, 2, 3}}
        \cup {JObj("Time Series (1min)" :> JObj(keys[1] :> EntryA)
                   @@ "Time Series (5min)" :> JStr("N/A")),
              JObj("Time Series (5min)"
                   :> JObj(keys[1] :> EntryA @@ keys[2] :> EntryB)),
              JObj("Meta Data" :> JNull
                   @@ "Time Series (5min)"
                      :> JObj(keys[1] :> EntryB @@ keys[2] :> EntryA))}

\* "Meta Data" of an indicator response.
IndicatorMeta ==
    JObj("1: Symbol" :> JStr("MSFT") @@ "2: Indicator" :> JStr("Moving Average")
         @@ "3: Last Refreshed" :> JStr("2023-09-08 09:30")
         @@ "4: Interval" :> JStr("60min") @@ "5: Time Period" :> JNum(60)
         @@ "6: Series Type" :> JStr("close") @@ "7: Time Zone" :> JStr("US/Eastern"))

\* The time period as quoted text.
IndicatorMetaBadType ==
    JObj([IndicatorMeta.v EXCEPT !["5: Time Period"] = JStr("60")])

ValueSMA == JObj("SMA" :> JStr("331.50"))
ValueSMA2 == JObj("SMA" :> JStr("334.00"))
ValueBands ==
    JObj("Real Upper Band" :> JStr("335.00")
         @@ "Real Middle Band" :> JStr("331.50")
         @@ "Real Lower Band" :> JStr("329.00"))

\* Entries whose members are not all quoted numbers.
OddValues ==
    {JObj("SMA" :> JStr("N/A")), JObj("SMA" :> JNum(331)), EmptyObj,
     JStr("N/A"),
     JObj([ValueBands.v EXCEPT !["Real Lower Band"] = JNull])}

IndicatorNames == {"SMA", "BBANDS"}

\* The entries the API sends for the indicator n.
ValuesOf(n) == IF n = "BBANDS" THEN {ValueBands} ELSE {ValueSMA, ValueSMA2}

\* Documents for UnmarshalIndicatorJSON: the response to a request for n, with
\* and without "Meta Data".
IndicatorDocs ==
    LET k1 == TimeKeys(LayoutMinutes)[1]
        Key(n) == IF n = "BBANDS" THEN "Technical Analysis: BBANDS"
                  ELSE "Technical Analysis: SMA"
    IN  {JObj("Meta Data" :> IndicatorMeta @@ Key(n) :> JObj(s))
         : <<n, s>> \in UNION {{n} \X (GoodSeries(LayoutMinutes, ValuesOf(n))
                                     \cup OddSeries(LayoutMinutes, ValuesOf(n),
                                                    OddValues))
                               : n \in IndicatorNames}}
        \cup {JObj("Meta Data" :> m @@ Key("SMA") :> JObj(k1 :> ValueSMA))
              : m \in {IndicatorMetaBadType, MetaFull, JStr("N/A")}}
        \cup {JObj(Key("SMA") :> JObj(k1 :> ValueSMA2)),
              JObj(Key("SMA") :> JObj(k1 :> ValueSMA
                                      @@ TimeKeys(LayoutMinutes)[2] :> ValueSMA2)),
              JObj("Meta Data" :> JNull
                   @@ Key("SMA") :> JObj(k1 :> ValueSMA2
                                         @@ TimeKeys(LayoutMinutes)[2] :> ValueSMA)),
              JObj("Technical Analysis: EMA" :> JObj(k1 :> ValueSMA)),
              JObj("Meta Data" :> IndicatorMeta @@ Key("SMA") :> JStr("N/A")),
              JObj("Meta Data" :> IndicatorMetaBadType
                   @@ Key("SMA") :> JObj(TimeKeys(LayoutMinutes)[4] :> ValueSMA))}

\* "Meta Data" of a digital currency response.
CryptoMeta ==
    JObj("1. Information" :> JStr("Daily Prices and Volumes for Digital Currency")
         @@ "2. Digital Currency Code" :> JStr("BTC")
         @@ "3. Digital Currency Name" :> JStr("Bitcoin")
         @@ "4. Market Code" :> JStr("USD")
         @@ "5. Market Name" :> JStr("United States Dollar")
         @@ "6. Last Refreshed" :> JStr("2023-09-08 00:00:00")
         @@ "7. Time Zone" :> JStr("UTC"))

CryptoMetaBadType ==
    JObj([CryptoMeta.v EXCEPT !["4. Market Code"] = JNum(7)])

CryptoA ==
    JObj("1a. open (USD)" :> JStr("330.00") @@ "2a. high (USD)" :> JStr("335.00")
         @@ "3a. low (USD)" :> JStr("329.00") @@ "4a. close (USD)" :> JStr("334.00")
         @@ "5. volume" :> JStr("1000000") @@ "6. market cap (USD)" :> JStr("2000"))

CryptoB == JObj([CryptoA.v EXCEPT !["1a. open (USD)"] = JStr("331.50")])

\* A crypto entry without the market cap.
CryptoNoCap ==
    JObj([k \in DOMAIN CryptoA.v \ {"6. market cap (USD)"} |-> CryptoA.v[k]])

OddCrypto ==
    {CryptoNoCap, JStr("N/A"),
     JObj([CryptoA.v EXCEPT !["5. volume"] = JStr("N/A")]),
     JObj([CryptoA.v EXCEPT !["5. volume"] = JNum(7)])}

\* Documents for UnmarshalCryptoJSON.
CryptoDocs ==
    LET daily == "Time Series (Digital Currency Daily)"
        weekly == "Time Series (Digital Currency Weekly)"
        keys == TimeKeys(LayoutDate)
    IN  {JObj("Meta Data" :> CryptoMeta @@ daily :> JObj(s))
         : s \in GoodSeries(LayoutDate, {CryptoA, CryptoB})
                 \cup OddSeries(LayoutDate, {CryptoA, CryptoB}, OddCrypto)}
        \cup {JObj("Meta Data" :> m @@ daily :> JObj(keys[1] :> CryptoA))
              : m \in {CryptoMetaBadType, JStr("N/A")}}
        \cup {JObj(weekly :> JObj(keys[1] :> CryptoB)),
              JObj(weekly :> JObj(keys[1] :> CryptoA @@ keys[2] :> CryptoB)),
              JObj("Meta Data" :> JNull
                   @@ weekly :> JObj(keys[1] :> CryptoB @@ keys[2] :> CryptoA)),
              JObj("Meta Data" :> CryptoMeta @@ daily :> JStr("N/A")),
              JObj("Meta Data" :> CryptoMeta
                   @@ daily :> JObj(keys[1] :> CryptoA)
                   @@ weekly :> JObj(keys[1] :> CryptoB)),
              JObj("Meta Data" :> CryptoMeta
                   @@ daily :> JObj(keys[1] :> CryptoA)
                   @@ weekly :> JObj(keys[2] :> CryptoB)),
              JObj("Meta Data" :> CryptoMeta
                   @@ daily :> JObj(keys[1] :> CryptoNoCap @@ keys[4] :> CryptoA))}

\* The member "Global Quote" as the API sends it.
QuoteFull ==
    "01. symbol" :> JStr("MSFT") @@ "02. open" :> JStr("330.00")
    @@ "03. high" :> JStr("335.00") @@ "04. low" :> JStr("329.00")
    @@ "05. price" :> JStr("334.00") @@ "06. volume" :> JStr("1000000")
    @@ "07. latest trading day" :> JStr("2023-09-08")
    @@ "08. previous close" :> JStr("331.50") @@ "09. change" :> JStr("-1.50")
    @@ "10. change percent" :> JStr("-0.45%")

\* Documents for Quote.UnmarshalJSON: the full quote, the quote with one or
\* two members changed or dropped, and documents without a quote.
QuoteDocs ==
    LET parsed == {QuoteFields[i][2] : i \in 1..Len(QuoteFields)}
    IN  {JObj("Global Quote" :> JObj(QuoteFull)),
         JObj("Global Quote" :> JObj([QuoteFull EXCEPT !["02. open"] = JStr("331.50")])),
         JObj("Global Quote" :> JStr("N/A")),
         JObj("Global Quote" :> JNull)}
        \cup {JObj("Global Quote" :> JObj([QuoteFull EXCEPT ![k] = v]))
              : k \in parsed, v \in {JStr("N/A"), JNum(7)}}
        \cup {JObj("Global Quote" :>
                     JObj([j \in DOMAIN QuoteFull \ {k} |-> QuoteFull[j]]))
              : k \in parsed}
        \cup {JObj("Global Quote" :>
                     JObj([QuoteFull EXCEPT !["03. high"] = JStr("N/A"),
                                            !["09. change"] = v]))
              : v \in {JStr("N/A"), JNum(7)}}
        \cup {JObj("Global Quote" :> JObj([QuoteFull EXCEPT !["05. price"] = JNull]))}

\* The member "Realtime Currency Exchange Rate" as the API sends it.
RateFull ==
    "1. From_Currency Code" :> JStr("USD")
    @@ "2. From_Currency Name" :> JStr("United States Dollar")
    @@ "3. To_Currency Code" :> JStr("EUR") @@ "4. To_Currency Name" :> JStr("Euro")
    @@ "5. Exchange Rate" :> JStr("0.93400000")
    @@ "6. Last Refreshed" :> JStr("2023-09-08 09:30:00")
    @@ "7. Time Zone" :> JStr("UTC") @@ "8. Bid Price" :> JStr("0.93390000")
    @@ "9. Ask Price" :> JStr("0.93410000")

\* Documents for the exchange rate: the full block, the block with a member
\* changed or dropped, and documents without the block.
ExchangeRateDocs ==
    LET tag == "Realtime Currency Exchange Rate"
        some == {"1. From_Currency Code", "5. Exchange Rate", "9. Ask Price"}
    IN  {JObj(tag :> JObj(RateFull)), JObj(tag :> JStr("N/A")), JObj(tag :> JNull),
         JObj(tag :> EmptyObj),
         JObj("Information" :> JStr("Thank you for using Alpha Vantage!"))}
        \cup {JObj(tag :> JObj([RateFull EXCEPT ![k] = v]))
              : k \in some, v \in {JStr("N/A"), JStr("1e3"), JNum(7), JNull}}
        \cup {JObj(tag :> JObj([j \in DOMAIN RateFull \ {k} |-> RateFull[j]]))
              : k \in some}

Kinds == {"Intraday", "Quote", "Indicator", "Crypto"} \cup DailyKinds

Payloads(kind) ==
    CASE kind = "Intraday" ->
           NoSeriesDocs \cup SeriesDocs("Time Series (1min)", LayoutSeconds)
           \cup TwoSeriesDocs
      [] kind \in DailyKinds ->
           NoSeriesDocs \cup SeriesDocs(SeriesKey(kind), LayoutDate)
      [] kind = "Quote" -> NoSeriesDocs \cup QuoteDocs
      [] kind = "Indicator" -> NoSeriesDocs \cup IndicatorDocs
      [] kind = "Crypto" -> NoSeriesDocs \cup CryptoDocs
      [] kind = "ExchangeRate" -> NoSeriesDocs \cup ExchangeRateDocs
      [] OTHER -> {}

\* The indicatorName arguments of a call; only UnmarshalIndicatorJSON has one.
Names(kind) == IF kind = "Indicator" THEN IndicatorNames ELSE {""}

ZeroRecord(kind) ==
    CASE kind \in {"Intraday"} \cup DailyKinds -> ZeroTimeSeries
      [] kind = "Quote" -> ZeroQuote
      [] kind = "Indicator" -> ZeroIndicatorResponse
      [] kind = "Crypto" -> ZeroCryptoSeriesResponse
      [] kind = "ExchangeRate" -> ZeroCurrencyExchangeRateResponse

\* The outcomes of the decoder of kind for the record rec, the document d and
\* the indicator name n.
Decode(kind, rec, d, n) ==
    CASE kind = "Intraday" -> IntradayUnmarshalJSON(rec, d)
      [] kind \in DailyKinds -> DailyUnmarshalJSON(kind, rec, d)
      [] kind = "Quote" -> QuoteUnmarshalJSON(rec, d)
      [] kind = "Indicator" -> UnmarshalIndicatorJSON(rec, d, n)
      [] kind = "Crypto" -> UnmarshalCryptoJSON(rec, d)
      [] kind = "ExchangeRate" -> UnmarshalExchangeRate(rec, d)

(***************************************************************************)
(* The callers: a record is declared, bytes arrive, the decoder is called  *)
(* on them, and the caller takes the result.                               *)
(***************************************************************************)
\* The goroutines that call decoders at the same time.
Callers == {1, 2}

\* A caller that has not called yet.
IdleCall ==
    [kind |-> "none", data |-> JNull, name |-> "", rec |-> <<>>, raw |-> <<>>,
     keys |-> {}, tsKey |-> "", dates |-> {}, met |-> FALSE, err |-> "nil",
     panicked |-> FALSE, pc |-> "idle"]

Init ==
    /\ target = [kind |-> "none", rec |-> <<>>]
    /\ data = JNull
    /\ name = ""
    /\ pre = <<>>
    /\ err = "nil"
    /\ panicked = FALSE
    /\ pc = "idle"
    /\ decodes = 0
    /\ function = ""
    /\ calls = [c \in Callers |-> IdleCall]

\* var intradayData models.TimeSeriesIntraday and its like: a zero record.
NewRecord(kind) ==
    /\ pc = "idle"
    /\ target' = [kind |-> kind, rec |-> ZeroRecord(kind)]
    /\ decodes' = 0
    /\ UNCHANGED <<data, name, pre, err, panicked, pc, function, calls>>

\* The response body read for the target's endpoint.
Receive(d, n) ==
    /\ pc = "idle"
    /\ target.kind # "none"
    /\ decodes < MaxDecodes
    /\ d \in Payloads(target.kind)
    /\ n \in Names(target.kind)
    /\ data' = d
    /\ name' = n
    /\ pc' = "ready"
    /\ UNCHANGED <<target, pre, err, panicked, decodes, function, calls>>

\* The decoder runs on the bytes in hand and ends with the outcome out.
Finish(out) ==
    /\ target' = [target EXCEPT !.rec = out.rec]
    /\ pre' = target.rec
    /\ err' = out.err
    /\ panicked' = out.panicked
    /\ pc' = "done"
    /\ decodes' = decodes + 1
    /\ UNCHANGED <<data, name, function, calls>>

UnmarshalIntraday ==
    /\ pc = "ready"
    /\ target.kind = "Intraday"
    /\ \E out \in IntradayUnmarshalJSON(target.rec, data) : Finish(out)

UnmarshalDaily ==
    /\ pc = "ready"
    /\ target.kind \in DailyKinds
    /\ \E out \in DailyUnmarshalJSON(target.kind, target.rec, data) : Finish(out)

UnmarshalQuote ==
    /\ pc = "ready"
    /\ target.kind = "Quote"
    /\ \E out \in QuoteUnmarshalJSON(target.rec, data) : Finish(out)

UnmarshalIndicator ==
    /\ pc = "ready"
    /\ target.kind = "Indicator"
    /\ \E out \in UnmarshalIndicatorJSON(target.rec, data, name) : Finish(out)

UnmarshalCrypto ==
    /\ pc = "ready"
    /\ target.kind = "Crypto"
    /\ \E out \in UnmarshalCryptoJSON(target.rec, data) : Finish(out)

\* The caller has the result; a panic is not recovered from.  The record a
\* method of Client declared is gone when the method has returned.
Return ==
    /\ pc = "done"
    /\ ~panicked
    /\ pc' = "idle"
    /\ data' = JNull
    /\ name' = ""
    /\ pre' = <<>>
    /\ err' = "nil"
    /\ function' = ""
    /\ target' = IF function = "" THEN target ELSE [kind |-> "none", rec |-> <<>>]
    /\ UNCHANGED <<panicked, decodes, calls>>

\* Client.GetWeeklyAdjusted with the response body d of the API function
\* TIME_SERIES_WEEKLY_ADJUSTED: the body is decoded into a TimeSeriesWeekly
\* declared for it, and that record is returned, or the zero record with the
\* error.
GetWeeklyAdjusted(d) ==
    /\ pc = "idle"
    /\ d \in Payloads("WeeklyAdjusted")
    /\ \E out \in DailyUnmarshalJSON("Weekly", ZeroTimeSeries, d) :
          /\ target' = [kind |-> "Weekly",
                        rec |-> IF ~out.panicked /\ out.err # "nil"
                                THEN ZeroTimeSeries ELSE out.rec]
          /\ err' = out.err
          /\ panicked' = out.panicked
    /\ data' = d
    /\ name' = ""
    /\ pre' = ZeroTimeSeries
    /\ pc' = "done"
    /\ decodes' = 1
    /\ function' = "TIME_SERIES_WEEKLY_ADJUSTED"
    /\ UNCHANGED calls

\* The methods of Client that fetch and decode, by the API function they ask
\* for; an indicator method (GetSMA, GetBBANDS, ...) by its indicator name, the
\* four crypto methods by one of them.
Functions ==
    {"TIME_SERIES_INTRADAY", "TIME_SERIES_DAILY", "TIME_SERIES_DAILY_ADJUSTED",
     "TIME_SERIES_WEEKLY", "TIME_SERIES_MONTHLY", "TIME_SERIES_MONTHLY_ADJUSTED",
     "GLOBAL_QUOTE", "CURRENCY_EXCHANGE_RATE", "DIGITAL_CURRENCY_DAILY"}
    \cup IndicatorNames

\* The record the method for the function f declares and decodes into.
RecordOf(f) ==
    CASE f = "TIME_SERIES_INTRADAY" -> "Intraday"
      [] f = "TIME_SERIES_DAILY" -> "Daily"
      [] f = "TIME_SERIES_DAILY_ADJUSTED" -> "DailyAdjusted"
      [] f = "TIME_SERIES_WEEKLY" -> "Weekly"
      [] f = "TIME_SERIES_MONTHLY" -> "Monthly"
      [] f = "TIME_SERIES_MONTHLY_ADJUSTED" -> "MonthlyAdjusted"
      [] f = "GLOBAL_QUOTE" -> "Quote"
      [] f = "CURRENCY_EXCHANGE_RATE" -> "ExchangeRate"
      [] f = "DIGITAL_CURRENCY_DAILY" -> "Crypto"
      [] f \in IndicatorNames -> "Indicator"

\* The nil pointer.
Nil == <<>>

\* A method that hands back what the decoder left, error or not.
ResultAsDecoded(kind, out) == out.rec

\* What a method returns beside the error of the decode out: with an error the
\* zero record (models.TimeSeriesDaily{}, ...), or nil where the result is a
\* pointer; the decoded record otherwise.
Result(kind, out) ==
    IF out.err = "nil" THEN out.rec
    ELSE IF kind \in {"Indicator", "Crypto", "ExchangeRate"} THEN Nil
    ELSE ZeroRecord(kind)

\* The method of Client for the function f with the response body d, called
\* by a caller that holds no record of its own: the body is decoded into a
\* record declared for it, and the method returns.
Get(f, d) ==
    /\ pc = "idle"
    /\ target.kind = "none"
    /\ d \in Payloads(RecordOf(f))
    /\ \E out \in Decode(RecordOf(f), ZeroRecord(RecordOf(f)), d,
                         IF f \in IndicatorNames THEN f ELSE "") :
          /\ target' = [kind |-> RecordOf(f),
                        rec |-> IF out.panicked THEN out.rec
                                ELSE Result(RecordOf(f), out)]
          /\ err' = out.err
          /\ panicked' = out.panicked
    /\ data' = d
    /\ name' = IF f \in IndicatorNames THEN f ELSE ""
    /\ pre' = ZeroRecord(RecordOf(f))
    /\ pc' = "done"
    /\ decodes' = 1
    /\ function' = f
    /\ UNCHANGED calls

Next ==
    \/ \E kind \in Kinds : NewRecord(kind)
    \/ \E d \in Payloads(target.kind), n \in Names(target.kind) : Receive(d, n)
    \/ UnmarshalIntraday
    \/ UnmarshalDaily
    \/ UnmarshalQuote
    \/ UnmarshalIndicator
    \/ UnmarshalCrypto
    \/ \E d \in Payloads("WeeklyAdjusted") : GetWeeklyAdjusted(d)
    \/ \E f \in Functions : \E d \in Payloads(RecordOf(f)) : Get(f, d)
    \/ Return

Spec == Init /\ [][Next]_vars

(***************************************************************************)
(* The call that is over, and the payload it was given                     *)
(***************************************************************************)
TimeSeriesKinds == {"Intraday"} \cup DailyKinds

\* The decoders that fill a sequence.
SequenceKinds == TimeSeriesKinds \cup {"Indicator", "Crypto"}

\* The decoder returned nil.
Succeeded == pc = "done" /\ ~panicked /\ err = "nil"

\* The decoder returned an error.
Failed == pc = "done" /\ ~panicked /\ err # "nil"

\* The sequence field of a record of kind.
Sequence(kind, rec) ==
    IF kind = "Indicator" THEN rec.IndicatorValues ELSE rec.TimeSeries

\* The members of the document d that a time-series decoder of kind reads its
\* series from.
SeriesOf(kind, d) ==
    IF ~IsObj(d) THEN {}
    ELSE IF kind = "Intraday"
    THEN {d.v[k] : k \in {k \in DOMAIN d.v : HasPrefix(k, "Time Series")}}
    ELSE {d.v[k] : k \in {SeriesKey(kind)} \cap DOMAIN d.v}

\* The entries of those series.
EntriesOf(kind, d) ==
    UNION {{s.v[k] : k \in DOMAIN s.v} : s \in {s \in SeriesOf(kind, d) : IsObj(s)}}

\* The keys of the five numeric fields of OHLCV.
OHLCVKeys == {"1. open", "2. high", "3. low", "4. close", "5. volume"}

\* The keys of the numeric fields of the element type of kind.
NumericKeys(kind) ==
    OHLCVKeys \cup (IF IsAdjusted(kind)
                    THEN {"5. adjusted close", "7. dividend amount"} ELSE {})

\* The member jv under key is a string that does not spell a number.
NonNumeric(jv, key) ==
    /\ IsStr(jv)
    /\ ~(IF key = "5. volume" THEN ParseInt(Chars[jv.v])
         ELSE ParseFloat(Chars[jv.v])).ok

\* d is an indicator response for n with nothing malformed in the series: the
\* expected key holds an object, every key of it is a timestamp of the layout
\* and every entry an object of quoted numbers.
ValidIndicatorPayload(d, n) ==
    /\ IsObj(d)
    /\ \E key \in ExpectedKey(d.v, n) :
         /\ IsObj(d.v[key])
         /\ \A k \in DOMAIN d.v[key].v :
              /\ ParseTime(LayoutMinutes, Chars[k]).ok
              /\ IsObj(d.v[key].v[k])
              /\ \A m \in DOMAIN d.v[key].v[k].v :
                   /\ IsStr(d.v[key].v[k].v[m])
                   /\ ParseFloat(Chars[d.v[key].v[k].v[m].v]).ok

\* Timestamp and sub-field names of every entry of an indicator sequence.
Shape(seq) == [i \in DOMAIN seq |-> <<seq[i].Timestamp, DOMAIN seq[i].Values>>]

\* Timestamp and sub-field names of every entry under the expected key of d.
PayloadShape(d, n) ==
    LET Of(tsData) ==
            [k \in DOMAIN tsData |->
               <<ParseTime(LayoutMinutes, Chars[k]).t, DOMAIN tsData[k].v>>]
    IN  Of(d.v[CHOOSE key \in ExpectedKey(d.v, n) : TRUE].v)

\* The sequences that decoding the payload in hand into a fresh record of the
\* target's kind can give.
FreshSequences ==
    {Sequence(target.kind, o.rec)
     : o \in Decode(target.kind, ZeroRecord(target.kind), data, name)}

\* How many arguments f maps to x.
Occurrences(f, x) == Cardinality({a \in DOMAIN f : f[a] = x})

(***************************************************************************)
(* Properties                                                              *)
(***************************************************************************)
\* C1: after a successful decode by any of the seven time-series decoders, no
\* entry of the decoded sequence is before its predecessor, whatever order the
\* keys were visited in.
C1_SortedAfterDecode ==
    (Succeeded /\ target.kind \in TimeSeriesKinds)
        => Sorted(target.rec.TimeSeries)

\* A successful time-series decode of entries with different timestamps.
C1_TwoDatesDecoded ==
    /\ Succeeded
    /\ target.kind \in TimeSeriesKinds
    /\ \E i \in 1..(Len(target.rec.TimeSeries) - 1) :
          Before(target.rec.TimeSeries[i].Timestamp,
                 target.rec.TimeSeries[i + 1].Timestamp)

\* C2: a time-series decoder given a JSON object without its series key (for
\* intraday: without a key that starts with "Time Series") does not succeed.
C2_MissingSeriesKeyFails ==
    (/\ pc = "done"
     /\ target.kind \in TimeSeriesKinds
     /\ IsObj(data)
     /\ SeriesOf(target.kind, data) = {})
        => ~Succeeded

\* C3: UnmarshalIndicatorJSON called with the name X does not succeed when the
\* payload has no key "Technical Analysis: X" holding an object.
C3_MissingIndicatorKeyFails ==
    (/\ pc = "done"
     /\ target.kind = "Indicator"
     /\ IsObj(data)
     /\ ~\E key \in ExpectedKey(data.v, name) : IsObj(data.v[key]))
        => ~Succeeded

\* C4: a time-series decode does not succeed when a numeric field of an entry
\* holds a string that is no number.
C4_NonNumericFieldFails ==
    (/\ pc = "done"
     /\ target.kind \in TimeSeriesKinds
     /\ \E e \in EntriesOf(target.kind, data) :
          /\ IsObj(e)
          /\ \E key \in NumericKeys(target.kind) \cap DOMAIN e.v :
                NonNumeric(e.v[key], key))
        => ~Succeeded

\* C5: a time-series decode does not succeed when an entry lacks one of the
\* five fields open, high, low, close and volume.
C5_MissingFieldFails ==
    (/\ pc = "done"
     /\ target.kind \in TimeSeriesKinds
     /\ \E e \in EntriesOf(target.kind, data) :
          IsObj(e) /\ ~(OHLCVKeys \subseteq DOMAIN e.v))
        => ~Succeeded

\* C6: a successful decode of a payload with entries into a record that holds
\* the entries of an earlier decode leaves the sequence that the same decode
\* into a fresh record gives.
C6_SequenceRebuilt ==
    (/\ Succeeded
     /\ target.kind \in SequenceKinds
     /\ Sequence(target.kind, pre) # <<>>
     /\ <<>> \notin FreshSequences)
        => Sequence(target.kind, target.rec) \in FreshSequences

\* C7: a decoder that returns an error leaves the record as it was handed to
\* it: no entry and no metadata of that call.
C7_NoPartialResult == Failed => target.rec = pre

\* C8: a decoder given a JSON object returns; it does not panic.
C8_NeverPanics == (pc = "done" /\ IsObj(data)) => ~panicked

\* C9: every successful decode of the same bytes into a fresh record gives the
\* same record, whatever order the keys are visited in.
C9_Deterministic ==
    (Succeeded /\ pre = ZeroRecord(target.kind))
        => \A o \in Decode(target.kind, pre, data, name) :
              (~o.panicked /\ o.err = "nil") => o.rec = target.rec

\* C10: after a successful decode of a valid indicator payload the sequence
\* holds, beside what it held, one entry per timestamp of the payload whose
\* Values has exactly the sub-field names found under that timestamp.
C10_ValuesHavePayloadNames ==
    (/\ Succeeded
     /\ target.kind = "Indicator"
     /\ ValidIndicatorPayload(data, name))
        => \A x \in {Shape(target.rec.IndicatorValues)[i]
                     : i \in DOMAIN target.rec.IndicatorValues}
                    \cup {PayloadShape(data, name)[k]
                          : k \in DOMAIN PayloadShape(data, name)} :
              Occurrences(Shape(target.rec.IndicatorValues), x)
                = Occurrences(Shape(pre.IndicatorValues), x)
                  + Occurrences(PayloadShape(data, name), x)

\* A valid BBANDS payload decoded: an entry with three sub-fields.
C10_ThreeBandsDecoded ==
    /\ Succeeded
    /\ target.kind = "Indicator"
    /\ ValidIndicatorPayload(data, name)
    /\ \E i \in DOMAIN target.rec.IndicatorValues :
          Cardinality(DOMAIN target.rec.IndicatorValues[i].Values) = 3

\* The member jv of an indicator entry is not a quoted number.
NotNumericString(jv) == ~IsStr(jv) \/ ~ParseFloat(Chars[jv.v]).ok

\* The entries (objects) under the expected key of the indicator payload d.
IndicatorEntries(d, n) ==
    IF ~IsObj(d) THEN {}
    ELSE UNION {{d.v[key].v[k] : k \in {k \in DOMAIN d.v[key].v : IsObj(d.v[key].v[k])}}
                : key \in {key \in ExpectedKey(d.v, n) : IsObj(d.v[key])}}

\* C11: UnmarshalIndicatorJSON does not succeed when a sub-field under a
\* timestamp of the expected key is anything but a quoted number: a string
\* that is no number, a JSON number, null, an array or an object.
C11_BadSubFieldFails ==
    (/\ pc = "done"
     /\ target.kind = "Indicator"
     /\ \E e \in IndicatorEntries(data, name) :
           \E m \in DOMAIN e.v : NotNumericString(e.v[m]))
        => ~Succeeded

\* The metadata keys the decoder of kind knows, each with the type it asserts.
KnownMetaKeys(kind) ==
    CASE kind = "Intraday" ->
           {<<IntradayMetaKeys[i][2], "string">> : i \in DOMAIN IntradayMetaKeys}
      [] kind = "Indicator" ->
           {<<IndicatorMetaKeys[i][2], IndicatorMetaKeys[i][3]>>
            : i \in DOMAIN IndicatorMetaKeys}
      [] kind = "Crypto" ->
           {<<CryptoMetaKeys[i][2], CryptoMetaKeys[i][3]>> : i \in DOMAIN CryptoMetaKeys}

\* C12: the intraday, indicator and crypto decoders return an error when
\* "Meta Data" holds a known key whose value is not of the expected type (a
\* string; a number for the indicator's time period).
C12_WrongMetaTypeFails ==
    (/\ pc = "done"
     /\ target.kind \in {"Intraday", "Indicator", "Crypto"}
     /\ IsObj(data)
     /\ "Meta Data" \in DOMAIN data.v
     /\ IsObj(data.v["Meta Data"])
     /\ \E p \in KnownMetaKeys(target.kind) :
           /\ p[1] \in DOMAIN data.v["Meta Data"].v
           /\ data.v["Meta Data"].v[p[1]].k # p[2])
        => Failed

\* The parsed field f of the quote cannot be taken from the member gq: its key
\* is absent, or its value is no string or a string that does not parse.
BadQuoteField(gq, f) ==
    \/ f[2] \notin DOMAIN gq
    \/ ~IsStr(gq[f[2]])
    \/ ~QuoteParse(f[3], Chars[gq[f[2]].v]).ok

\* C13: when a field of "Global Quote" cannot be parsed, the error the quote
\* decoder returns names the first such field in the order open, high, low,
\* price, volume, latest trading day, previous close, change.
C13_ErrorNamesFirstBadField ==
    (/\ pc = "done"
     /\ target.kind = "Quote"
     /\ IsObj(data)
     /\ "Global Quote" \in DOMAIN data.v
     /\ IsObj(data.v["Global Quote"])
     /\ \E i \in DOMAIN QuoteFields :
           BadQuoteField(data.v["Global Quote"].v, QuoteFields[i]))
        => \E i \in DOMAIN QuoteFields :
              /\ BadQuoteField(data.v["Global Quote"].v, QuoteFields[i])
              /\ \A j \in 1..(i - 1) :
                    ~BadQuoteField(data.v["Global Quote"].v, QuoteFields[j])
              /\ err = QuoteFields[i][4]

\* C14: after a successful decode by the indicator decoder or the crypto
\* decoder, no entry of IndicatorValues (of TimeSeries) is before its
\* predecessor.
C14_IndicatorAndCryptoSorted ==
    (Succeeded /\ target.kind \in {"Indicator", "Crypto"})
        => Sorted(Sequence(target.kind, target.rec))

\* A successful indicator or crypto decode of entries with different
\* timestamps.
C14_TwoStampsDecoded ==
    /\ Succeeded
    /\ target.kind \in {"Indicator", "Crypto"}
    /\ \E i \in 1..(Len(Sequence(target.kind, target.rec)) - 1) :
          Before(Sequence(target.kind, target.rec)[i].Timestamp,
                 Sequence(target.kind, target.rec)[i + 1].Timestamp)

\* The layout the decoder of kind parses its timestamp keys with.
LayoutOf(kind) ==
    CASE kind = "Intraday" -> LayoutSeconds
      [] kind = "Indicator" -> LayoutMinutes
      [] OTHER -> LayoutDate

\* The keys of the series objects that the decoder of kind visits in d.
TimestampKeys(kind, d, n) ==
    LET Keys(series) == UNION {DOMAIN s.v : s \in {s \in series : IsObj(s)}}
    IN  IF ~IsObj(d) THEN {}
        ELSE IF kind = "Indicator"
        THEN Keys({d.v[k] : k \in ExpectedKey(d.v, n)})
        ELSE IF kind = "Crypto"
        THEN Keys({d.v[k] : k \in {k \in DOMAIN d.v : HasPrefix(k, "Time Series")}})
        ELSE Keys(SeriesOf(kind, d))

\* cs is written in the format of layout, digit for digit: a date; a date and
\* hour:minute; a date and hour:minute:second, with or without a fraction of
\* the second.  The hour has one or two digits.
InLayout(layout, cs) ==
    LET pattern == [i \in DOMAIN cs |-> IF IsDigit(cs[i]) THEN "d" ELSE cs[i]]
        date == <<"d", "d", "d", "d", "-", "d", "d", "-", "d", "d">>
        hours == {<<" ", "d">>, <<" ", "d", "d">>}
        sixtieth == <<":", "d", "d">>
        fractions == {<<>>} \cup {<<".">> \o [i \in 1..n |-> "d"] : n \in 1..9}
    IN  CASE layout = LayoutDate -> pattern = date
          [] layout = LayoutMinutes ->
               pattern \in {date \o h \o sixtieth : h \in hours}
          [] layout = LayoutSeconds ->
               pattern \in {date \o h \o sixtieth \o sixtieth \o f
                            : h \in hours, f \in fractions}

\* C15: a decoder that finds a timestamp key which is not in its own format
\* returns an error: seconds for intraday, a date for the daily family and
\* crypto, hour:minute for the indicator.
C15_ForeignKeyFails ==
    (/\ pc = "done"
     /\ target.kind \in SequenceKinds
     /\ \E k \in TimestampKeys(target.kind, data, name) :
           ~InLayout(LayoutOf(target.kind), Chars[k]))
        => Failed

\* C16: UnmarshalCryptoJSON returns an error when an entry of a series object
\* lacks one of the six sub-fields it reads.
C16_MissingCryptoFieldFails ==
    (/\ pc = "done"
     /\ target.kind = "Crypto"
     /\ IsObj(data)
     /\ \E tsKey \in {k \in DOMAIN data.v : HasPrefix(k, "Time Series")} :
           /\ IsObj(data.v[tsKey])
           /\ \E date \in DOMAIN data.v[tsKey].v :
                 /\ IsObj(data.v[tsKey].v[date])
                 /\ ~(CryptoValueKeys \subseteq DOMAIN data.v[tsKey].v[date].v))
        => Failed

\* C18: a decoder given bytes that are no JSON document, or a document that
\* is no object, returns an error and leaves the record as it was.
C18_NonObjectFails ==
    (pc = "done" /\ ~IsObj(data)) => (Failed /\ target.rec = pre)

\* d is a daily payload with nothing malformed: "Meta Data" of strings, and
\* under "Time Series (Daily)" calendar dates with the five quoted numbers.
ValidDailyPayload(d) ==
    /\ IsObj(d)
    /\ "Meta Data" \in DOMAIN d.v
    /\ IsObj(d.v["Meta Data"])
    /\ \A k \in DOMAIN d.v["Meta Data"].v : IsStr(d.v["Meta Data"].v[k])
    /\ SeriesKey("Daily") \in DOMAIN d.v
    /\ IsObj(d.v[SeriesKey("Daily")])
    /\ \A date \in DOMAIN d.v[SeriesKey("Daily")].v :
          /\ ParseTime(LayoutDate, Chars[date]).ok
          /\ IsObj(d.v[SeriesKey("Daily")].v[date])
          /\ OHLCVKeys \subseteq DOMAIN d.v[SeriesKey("Daily")].v[date].v
          /\ \A key \in OHLCVKeys :
                /\ IsStr(d.v[SeriesKey("Daily")].v[date].v[key])
                /\ ~NonNumeric(d.v[SeriesKey("Daily")].v[date].v[key], key)

\* The OHLCV that the date key and its entry e spell: midnight of the date, and
\* the parse of each quoted string of e.
SpelledOHLCV(date, e) ==
    [Timestamp |-> Instant(Num(SubSeq(Chars[date], 1, 4)),
                           Num(SubSeq(Chars[date], 6, 7)),
                           Num(SubSeq(Chars[date], 9, 10)), 0, 0, 0, 0),
     Open |-> ParseFloat(Chars[e["1. open"].v]).val,
     High |-> ParseFloat(Chars[e["2. high"].v]).val,
     Low |-> ParseFloat(Chars[e["3. low"].v]).val,
     Close |-> ParseFloat(Chars[e["4. close"].v]).val,
     Volume |-> ParseInt(Chars[e["5. volume"].v]).val]

\* C19: the daily decoder given a valid payload succeeds with one entry per
\* date key, and the entry of a date has midnight of that date as Timestamp
\* and the parse of that date's own quoted strings as Open, High, Low, Close
\* and Volume.
C19_EntriesSpellTheirDate ==
    (pc = "done" /\ target.kind = "Daily" /\ ValidDailyPayload(data))
        => /\ Succeeded
           /\ Len(target.rec.TimeSeries)
                = Cardinality(DOMAIN data.v[SeriesKey("Daily")].v)
           /\ \A date \in DOMAIN data.v[SeriesKey("Daily")].v :
                 \E i \in DOMAIN target.rec.TimeSeries :
                    target.rec.TimeSeries[i]
                      = SpelledOHLCV(date, data.v[SeriesKey("Daily")].v[date].v)

\* A daily decode of two dates whose entries differ.
C19_TwoDatesWithOwnValues ==
    /\ pc = "done"
    /\ target.kind = "Daily"
    /\ ValidDailyPayload(data)
    /\ Len(target.rec.TimeSeries) = 2
    /\ target.rec.TimeSeries[1].Open # target.rec.TimeSeries[2].Open
    /\ target.rec.TimeSeries[1].Volume # target.rec.TimeSeries[2].Volume

\* d is a response to TIME_SERIES_WEEKLY_ADJUSTED with data: "Meta Data" of
\* strings, and under "Weekly Adjusted Time Series" at least one calendar date,
\* each with quoted numbers that include the five of OHLCV.
WeeklyAdjustedResponse(d) ==
    /\ IsObj(d)
    /\ "Meta Data" \in DOMAIN d.v
    /\ IsObj(d.v["Meta Data"])
    /\ \A k \in DOMAIN d.v["Meta Data"].v : IsStr(d.v["Meta Data"].v[k])
    /\ SeriesKey("WeeklyAdjusted") \in DOMAIN d.v
    /\ IsObj(d.v[SeriesKey("WeeklyAdjusted")])
    /\ d.v[SeriesKey("WeeklyAdjusted")].v # <<>>
    /\ \A date \in DOMAIN d.v[SeriesKey("WeeklyAdjusted")].v :
          /\ ParseTime(LayoutDate, Chars[date]).ok
          /\ IsObj(d.v[SeriesKey("WeeklyAdjusted")].v[date])
          /\ OHLCVKeys \subseteq DOMAIN d.v[SeriesKey("WeeklyAdjusted")].v[date].v
          /\ \A key \in DOMAIN d.v[SeriesKey("WeeklyAdjusted")].v[date].v :
                /\ IsStr(d.v[SeriesKey("WeeklyAdjusted")].v[date].v[key])
                /\ ~NonNumeric(d.v[SeriesKey("WeeklyAdjusted")].v[date].v[key], key)

\* C20: Client.GetWeeklyAdjusted given a response with data returns, without
\* an error, a series with one entry per date key of the response.
C20_WeeklyAdjustedHasEntries ==
    (/\ pc = "done"
     /\ function = "TIME_SERIES_WEEKLY_ADJUSTED"
     /\ WeeklyAdjustedResponse(data))
        => /\ Succeeded
           /\ Len(target.rec.TimeSeries)
                = Cardinality(DOMAIN data.v[SeriesKey("WeeklyAdjusted")].v)

(***************************************************************************)
(* Concurrent callers.  Each goroutine calls a decoder on bytes and on a   *)
(* record of its own; the statements of the calls interleave.  A call is   *)
(* json.Unmarshal into raw, the metadata, the loops over the keys of raw   *)
(* and of the series object, one key at a step, and the sort.              *)
(***************************************************************************)
\* The decoders that write their record while they loop.
ConcurrentKinds == {"Intraday", "Indicator", "Crypto"}

\* The bytes the concurrent callers decode.
ConcurrentPayloads(kind) ==
    LET s == TimeKeys(LayoutSeconds)
        m == TimeKeys(LayoutMinutes)
        d == TimeKeys(LayoutDate)
        daily == "Time Series (Digital Currency Daily)"
        weekly == "Time Series (Digital Currency Weekly)"
    IN  CASE kind = "Intraday" ->
               {JArr(<<>>),
                JObj("Meta Data" :> MetaFull
                     @@ "Time Series (1min)" :> JObj(s[1] :> EntryA @@ s[2] :> EntryB)),
                JObj("Meta Data" :> MetaFull
                     @@ "Time Series (1min)" :> JObj(s[2] :> EntryA)
                     @@ "Time Series (5min)" :> JObj(s[3] :> EntryB)),
                JObj("Meta Data" :> MetaShort
                     @@ "Time Series (1min)" :> JObj(s[1] :> EntryA)),
                JObj("Time Series (1min)" :> JObj(s[1] :> EntryA @@ s[4] :> EntryB))}
          [] kind = "Indicator" ->
               {JObj("Meta Data" :> IndicatorMeta
                     @@ "Technical Analysis: SMA" :>
                          JObj(m[1] :> ValueSMA @@ m[2] :> ValueSMA2)),
                JObj("Meta Data" :> IndicatorMeta
                     @@ "Technical Analysis: SMA" :>
                          JObj(m[2] :> ValueSMA @@ m[3] :> ValueSMA2)),
                JObj("Meta Data" :> IndicatorMetaBadType
                     @@ "Technical Analysis: SMA" :> JObj(m[1] :> ValueSMA)),
                JObj("Technical Analysis: BBANDS" :>
                          JObj(m[1] :> ValueBands @@ m[2] :> JObj("SMA" :> JStr("N/A"))))}
          [] kind = "Crypto" ->
               {JObj("Meta Data" :> CryptoMeta
                     @@ daily :> JObj(d[1] :> CryptoA @@ d[2] :> CryptoB)),
                JObj("Meta Data" :> CryptoMeta
                     @@ daily :> JObj(d[1] :> CryptoA)
                     @@ weekly :> JObj(d[2] :> CryptoB)),
                JObj("Meta Data" :> CryptoMetaBadType
                     @@ daily :> JObj(d[1] :> CryptoA)),
                JObj(daily :> JObj(d[1] :> CryptoNoCap @@ d[4] :> CryptoA)),
                JObj(daily :> JStr("N/A"))}

\* The raw of the first caller, as if raw were a variable of the package.
RawOfFirst(c) == calls[1].raw

\* var raw map[string]interface{}: the map of the call of c itself.
RawOf(c) == calls[c].raw

\* rec with seq as its sequence field.
WithSequence(kind, rec, seq) ==
    IF kind = "Indicator" THEN [rec EXCEPT !.IndicatorValues = seq]
    ELSE [rec EXCEPT !.TimeSeries = seq]

\* The locals of a call that is over.
Over(s, rec, e, p) ==
    [s EXCEPT !.rec = rec, !.err = e, !.panicked = p, !.pc = "done",
              !.keys = {}, !.tsKey = "", !.dates = {}]

\* The locals of a call after the metadata block, for the map raw.
MetaStep(s, raw) ==
    LET Expected(s1, keys) ==
            IF \E k \in keys : IsObj(raw[k]) /\ raw[k].v # <<>>
            THEN [s1 EXCEPT !.tsKey = CHOOSE k \in keys : TRUE,
                            !.dates = DOMAIN raw[CHOOSE k \in keys : TRUE].v,
                            !.pc = "range"]
            ELSE [s1 EXCEPT !.pc = "sort"]
        Extracted(m) ==
            IF m.panicked
            THEN Over(s, IF s.kind = "Intraday"
                         THEN [s.rec EXCEPT !.MetaData = m.md] ELSE s.rec,
                      "none", TRUE)
            ELSE IF s.kind = "Indicator"
            THEN Expected([s EXCEPT !.rec.MetaData = m.md],
                          ExpectedKey(raw, s.name))
            ELSE [s EXCEPT !.rec.MetaData = m.md, !.keys = DOMAIN raw,
                           !.pc = "scan"]
        Extract(obj) ==
            CASE s.kind = "Intraday" -> IntradayMetaData(s.rec.MetaData, obj, 1)
              [] s.kind = "Indicator" -> extractMetaData(obj)
              [] s.kind = "Crypto" -> extractCryptoMetaData(obj)
    IN  Extracted(IF "Meta Data" \in DOMAIN raw /\ IsObj(raw["Meta Data"])
                  THEN Extract(raw["Meta Data"].v)
                  ELSE [md |-> s.rec.MetaData, panicked |-> FALSE])

\* The locals after the outer loop has taken the key k of raw.
ScanStep(s, raw, k) ==
    IF ~HasPrefix(k, "Time Series") THEN [s EXCEPT !.keys = s.keys \ {k}]
    ELSE IF ~IsObj(raw[k])
    THEN IF s.kind = "Crypto"
         THEN Over(s, [s.rec EXCEPT !.IntervalLabel = k], "none", TRUE)
         ELSE Over(s, s.rec, "expected map for time series data", FALSE)
    ELSE [s EXCEPT !.keys = s.keys \ {k},
                   !.tsKey = k,
                   !.dates = DOMAIN raw[k].v,
                   !.rec = IF s.kind = "Crypto"
                           THEN [s.rec EXCEPT !.IntervalLabel = k] ELSE s.rec,
                   !.pc = IF raw[k].v = <<>> THEN "scan" ELSE "range"]

\* The locals after the inner loop has taken the key date of the series
\* object tsData.
RangeStep(s, tsData, date) ==
    LET Appended(r) ==
            IF r.panicked
            THEN Over(s, WithSequence(s.kind, s.rec, r.ts), "none", TRUE)
            ELSE IF r.err # "nil"
            THEN Over(s, WithSequence(s.kind, s.rec, r.ts), r.err, FALSE)
            ELSE [s EXCEPT !.rec = WithSequence(s.kind, s.rec, r.ts),
                           !.dates = s.dates \ {date},
                           !.pc = IF s.dates # {date} THEN "range"
                                  ELSE IF s.kind = "Indicator" THEN "sort"
                                  ELSE "scan"]
        Unpanicked(r) == [ts |-> r.ts, err |-> r.err, panicked |-> FALSE]
    IN  CASE s.kind = "Intraday" ->
               Appended(Unpanicked(IntradaySeries(tsData, <<date>>, s.rec.TimeSeries)))
          [] s.kind = "Indicator" ->
               Appended(Unpanicked(IndicatorRange(tsData, <<date>>,
                                                  s.rec.IndicatorValues)))
          [] s.kind = "Crypto" ->
               Appended(CryptoRange(tsData, <<date>>, s.rec.TimeSeries))

\* The locals after sort.SliceStable and return nil.
SortStep(s) ==
    Over(s, WithSequence(s.kind, s.rec, SliceStable(Sequence(s.kind, s.rec))),
         "nil", FALSE)

\* The calls as they are after the caller c has made a step to the locals s;
\* every other call that is under way has met a step of another.
Stepped(c, s) ==
    [o \in Callers |->
       IF o = c THEN s
       ELSE IF calls[o].pc \in {"idle", "done"} THEN calls[o]
       ELSE [calls[o] EXCEPT !.met = TRUE]]

\* The caller c declares a record of kind and calls the decoder on d:
\* json.Unmarshal(data, &raw) and the return when that fails.
Call(c, kind, d, n) ==
    /\ calls[c].pc = "idle"
    /\ calls' = Stepped(c,
          IF TopLevelError(d)
          THEN [IdleCall EXCEPT !.kind = kind, !.data = d, !.name = n,
                                !.rec = ZeroRecord(kind), !.err = "json",
                                !.pc = "done"]
          ELSE [IdleCall EXCEPT !.kind = kind, !.data = d, !.name = n,
                                !.rec = ZeroRecord(kind), !.raw = RawMap(d),
                                !.pc = "meta"])
    /\ UNCHANGED <<target, data, name, pre, err, panicked, pc, decodes, function>>

\* The metadata block of the call of c.
Meta(c) ==
    /\ calls[c].pc = "meta"
    /\ calls' = Stepped(c, MetaStep(calls[c], RawOf(c)))
    /\ UNCHANGED <<target, data, name, pre, err, panicked, pc, decodes, function>>

\* One turn of the loop over raw in the call of c, or its end.
Scan(c) ==
    /\ calls[c].pc = "scan"
    /\ IF calls[c].keys = {}
       THEN calls' = Stepped(c, [calls[c] EXCEPT !.pc = "sort"])
       ELSE \E k \in calls[c].keys :
               calls' = Stepped(c, ScanStep(calls[c], RawOf(c), k))
    /\ UNCHANGED <<target, data, name, pre, err, panicked, pc, decodes, function>>

\* One turn of the loop over the series object in the call of c.
Range(c) ==
    /\ calls[c].pc = "range"
    /\ \E date \in calls[c].dates :
          calls' = Stepped(c, RangeStep(calls[c], RawOf(c)[calls[c].tsKey].v, date))
    /\ UNCHANGED <<target, data, name, pre, err, panicked, pc, decodes, function>>

\* The sort and the return of the call of c.
Sort(c) ==
    /\ calls[c].pc = "sort"
    /\ calls' = Stepped(c, SortStep(calls[c]))
    /\ UNCHANGED <<target, data, name, pre, err, panicked, pc, decodes, function>>

NextConcurrent ==
    \/ \E c \in Callers, kind \in ConcurrentKinds :
          \E d \in ConcurrentPayloads(kind), n \in Names(kind) : Call(c, kind, d, n)
    \/ \E c \in Callers : Meta(c)
    \/ \E c \in Callers : Scan(c)
    \/ \E c \in Callers : Range(c)
    \/ \E c \in Callers : Sort(c)

SpecConcurrent == Init /\ [][NextConcurrent]_vars

\* What the call of c came to, as an outcome of the decoder.
OutcomeOf(c) ==
    [rec |-> calls[c].rec, err |-> calls[c].err, panicked |-> calls[c].panicked]

\* C17: under every interleaving of the statements of concurrent calls on
\* records and bytes of their own, a call that is over has come to an outcome
\* that the same call has when it runs alone.
C17_ConcurrentCallsAsAlone ==
    \A c \in Callers :
       calls[c].pc = "done"
          => OutcomeOf(c) \in Decode(calls[c].kind, ZeroRecord(calls[c].kind),
                                     calls[c].data, calls[c].name)

\* Two calls that ran while the other was under way, both over, each with
\* the two entries of its own payload.
C17_TwoCallsInterleaved ==
    \A c \in Callers :
       /\ calls[c].pc = "done"
       /\ calls[c].met
       /\ calls[c].err = "nil"
       /\ Len(Sequence(calls[c].kind, calls[c].rec)) = 2

\* The block "Realtime Currency Exchange Rate" of the document d, when it is
\* an object.
RateBlock(d) ==
    IF IsObj(d) /\ "Realtime Currency Exchange Rate" \in DOMAIN d.v
       /\ IsObj(d.v["Realtime Currency Exchange Rate"])
    THEN d.v["Realtime Currency Exchange Rate"].v
    ELSE <<>>

\* C21: Client.GetCurrencyExchangeRate returns every field of "Realtime
\* Currency Exchange Rate" that the payload gives as a string with exactly the
\* text of the payload, numbers not parsed; and for a JSON object without the
\* key "Realtime Currency Exchange Rate" it does not return a record without
\* an error.
C21_RateKeptAndMissingBlockFails ==
    (pc = "done" /\ function = "CURRENCY_EXCHANGE_RATE")
        => /\ Succeeded
                => \A i \in DOMAIN ExchangeRateKeys :
                      (/\ ExchangeRateKeys[i][2] \in DOMAIN RateBlock(data)
                       /\ IsStr(RateBlock(data)[ExchangeRateKeys[i][2]]))
                         => target.rec.ExchangeRateInfo[ExchangeRateKeys[i][1]]
                              = RateBlock(data)[ExchangeRateKeys[i][2]].v
           /\ (IsObj(data) /\ "Realtime Currency Exchange Rate" \notin DOMAIN data.v)
                => ~Succeeded

\* The entries of seq whose Timestamp is the instant t, in the order of seq.
At(seq, t) ==
    LET Same(e) == e.Timestamp = t
    IN  SelectSeq(seq, Same)

CryptoFieldKeys ==
    << <<"Open", "1a. open (USD)">>, <<"High", "2a. high (USD)">>,
       <<"Low", "3a. low (USD)">>, <<"Close", "4a. close (USD)">>,
       <<"Volume", "5. volume">>, <<"MarketCap", "6. market cap (USD)">> >>

\* The series objects of the crypto payload d by their keys.
CryptoSeries(d) ==
    IF ~IsObj(d) THEN <<>>
    ELSE [k \in {k \in DOMAIN d.v : HasPrefix(k, "Time Series")} |-> d.v[k]]

\* d is a crypto payload with nothing wrong but the text of its numbers:
\* "Meta Data" is absent or an object of strings, every series is an object
\* of calendar dates, and every entry an object with the six members as
\* strings.
CryptoPayloadOfStrings(d) ==
    /\ IsObj(d)
    /\ ("Meta Data" \in DOMAIN d.v /\ IsObj(d.v["Meta Data"]))
          => \A k \in DOMAIN d.v["Meta Data"].v : IsStr(d.v["Meta Data"].v[k])
    /\ \A tsKey \in DOMAIN CryptoSeries(d) :
          /\ IsObj(CryptoSeries(d)[tsKey])
          /\ \A date \in DOMAIN CryptoSeries(d)[tsKey].v :
                /\ ParseTime(LayoutDate, Chars[date]).ok
                /\ IsObj(CryptoSeries(d)[tsKey].v[date])
                /\ \A key \in CryptoValueKeys :
                      /\ key \in DOMAIN CryptoSeries(d)[tsKey].v[date].v
                      /\ IsStr(CryptoSeries(d)[tsKey].v[date].v[key])

\* The members of the entry e whose text strconv.ParseFloat refuses.
Unparsed(e) ==
    {i \in DOMAIN CryptoFieldKeys : ~ParseFloat(Chars[e[CryptoFieldKeys[i][2]].v]).ok}

\* C23: UnmarshalCryptoJSON given a payload in which a sub-field of an entry is
\* a string that is no number returns nil, and the sequence holds the entry of
\* that date with 0 in that field and the parsed numbers in the others.
C23_UnparsedFieldIsZero ==
    (pc = "done" /\ target.kind = "Crypto" /\ CryptoPayloadOfStrings(data))
        => /\ Succeeded
           /\ \A tsKey \in DOMAIN CryptoSeries(data) :
                 \A date \in DOMAIN CryptoSeries(data)[tsKey].v :
                    \E i \in DOMAIN target.rec.TimeSeries :
                       /\ target.rec.TimeSeries[i].Timestamp
                            = ParseTime(LayoutDate, Chars[date]).t
                       /\ \A f \in DOMAIN CryptoFieldKeys :
                             target.rec.TimeSeries[i][CryptoFieldKeys[f][1]]
                               = IF f \in Unparsed(CryptoSeries(data)[tsKey].v[date].v)
                                 THEN F0
                                 ELSE ParseFloat(
                                        Chars[CryptoSeries(data)[tsKey].v[date]
                                                .v[CryptoFieldKeys[f][2]].v]).val

\* A crypto decode of such a payload with an entry whose volume is "N/A",
\* beside an entry whose members are all numbers.
C23_VolumeNotANumber ==
    /\ pc = "done"
    /\ target.kind = "Crypto"
    /\ CryptoPayloadOfStrings(data)
    /\ \E tsKey \in DOMAIN CryptoSeries(data) :
          /\ \E date \in DOMAIN CryptoSeries(data)[tsKey].v :
                Unparsed(CryptoSeries(data)[tsKey].v[date].v) # {}
          /\ \E date \in DOMAIN CryptoSeries(data)[tsKey].v :
                Unparsed(CryptoSeries(data)[tsKey].v[date].v) = {}
    /\ \E i \in DOMAIN target.rec.TimeSeries :
          target.rec.TimeSeries[i].Volume = F0 /\ target.rec.TimeSeries[i].Open # F0

\* C24: after a successful crypto decode of a payload with exactly one
\* top-level key that starts with "Time Series", IntervalLabel is that key and
\* TimeSeries holds an entry for every date of that key's object; and a decode
\* of a payload with no such key does not return nil with an empty label and
\* an empty series.
C24_LabelIsTheSeriesKey ==
    (pc = "done" /\ target.kind = "Crypto" /\ IsObj(data))
        => /\ (Succeeded /\ Cardinality(DOMAIN CryptoSeries(data)) = 1)
                => /\ target.rec.IntervalLabel \in DOMAIN CryptoSeries(data)
                   /\ \A date \in DOMAIN CryptoSeries(data)[target.rec.IntervalLabel].v :
                         \E i \in DOMAIN target.rec.TimeSeries :
                            target.rec.TimeSeries[i].Timestamp
                              = ParseTime(LayoutDate, Chars[date]).t
           /\ DOMAIN CryptoSeries(data) = {}
                => ~(/\ Succeeded
                     /\ target.rec.IntervalLabel = ""
                     /\ target.rec.TimeSeries = <<>>)

\* C25: the intraday decoder and the crypto decoder return an "expected map"
\* error when a top-level key that starts with "Time Series" holds a value
\* that is no JSON object.
C25_SeriesNotAnObjectFails ==
    (/\ pc = "done"
     /\ target.kind \in {"Intraday", "Crypto"}
     /\ IsObj(data)
     /\ \E k \in DOMAIN data.v : HasPrefix(k, "Time Series") /\ ~IsObj(data.v[k]))
        => (/\ Failed
            /\ err \in {"expected map for time series data",
                        "expected map for timestamp data"})

(***************************************************************************)
(* extractMetaData, one turn of its loop at a step.  The map is ranged     *)
(* over in an order the runtime picks: every key not yet visited can be    *)
(* the next.                                                               *)
(***************************************************************************)
\* The maps extractMetaData is called with: "Meta Data" of the indicator
\* documents, and one that has a key less and keys of other endpoints.
MetaDataObjects ==
    {d.v["Meta Data"].v
     : d \in {d \in IndicatorDocs : "Meta Data" \in DOMAIN d.v /\ IsObj(d.v["Meta Data"])}}
    \cup {[k \in DOMAIN IndicatorMeta.v \ {"4: Interval"} |-> IndicatorMeta.v[k]]
          @@ "5. Output Size" :> JStr("Compact") @@ "8: Note" :> JNum(7)}

\* The turn of the loop for key: the case of the switch with that key, if
\* there is one, asserts the type of the value and assigns its field.
SwitchStep(s, key) ==
    LET Assign(f, value) ==
            IF value.k # f[3] THEN [s EXCEPT !.panicked = TRUE, !.pc = "done"]
            ELSE [s EXCEPT !.rec[f[1]] = IF f[3] = "number" THEN <<value.v, 0>>
                                          ELSE value.v,
                           !.keys = s.keys \ {key}]
        Case(cases) ==
            IF cases = {} THEN [s EXCEPT !.keys = s.keys \ {key}]
            ELSE Assign(IndicatorMetaKeys[CHOOSE i \in cases : TRUE], s.raw[key])
    IN  Case({i \in DOMAIN IndicatorMetaKeys : IndicatorMetaKeys[i][2] = key})

\* The caller c calls extractMetaData(rawData): var metaData TimeSeriesMetaData.
Extract(c, rawData) ==
    /\ calls[c].pc = "idle"
    /\ calls' = [calls EXCEPT ![c] =
                   [IdleCall EXCEPT !.kind = "extractMetaData", !.raw = rawData,
                                    !.keys = DOMAIN rawData, !.rec = ZeroMetaData,
                                    !.pc = "switch"]]
    /\ UNCHANGED <<target, data, name, pre, err, panicked, pc, decodes, function>>

\* One turn of the loop in the call of c, or return metaData.
Switch(c) ==
    /\ calls[c].pc = "switch"
    /\ IF calls[c].keys = {}
       THEN calls' = [calls EXCEPT ![c].pc = "done"]
       ELSE \E key \in calls[c].keys :
               calls' = [calls EXCEPT ![c] = SwitchStep(calls[c], key)]
    /\ UNCHANGED <<target, data, name, pre, err, panicked, pc, decodes, function>>

NextExtract ==
    \/ \E c \in Callers : \E rawData \in MetaDataObjects : Extract(c, rawData)
    \/ \E c \in Callers : Switch(c)

SpecExtract == Init /\ [][NextExtract]_vars

\* The text under key in the object obj, "" when obj has no such key.
TextAt(obj, key) == IF key \in DOMAIN obj THEN obj[key].v ELSE ""

\* C26: when extractMetaData returns, Symbol is the value of "1: Symbol",
\* Information that of "2: Indicator", LastRefreshed that of "3: Last
\* Refreshed", Interval that of "4: Interval", TimePeriod that of "5: Time
\* Period", SeriesType that of "6: Series Type" and TimeZone that of "7: Time
\* Zone"; a field whose key is absent, and every field no key stands for, is
\* empty, whatever other keys the map has; and that is the result in whatever
\* order the keys were visited.
C26_IndicatorMetaDataByKey ==
    \A c \in Callers :
       (calls[c].pc = "done" /\ calls[c].kind = "extractMetaData")
          => /\ calls[c].panicked = extractMetaData(calls[c].raw).panicked
             /\ ~calls[c].panicked
                  => /\ calls[c].rec = extractMetaData(calls[c].raw).md
                     /\ calls[c].rec
                          = [Symbol |-> TextAt(calls[c].raw, "1: Symbol"),
                             Information |-> TextAt(calls[c].raw, "2: Indicator"),
                             LastRefreshed |->
                                 TextAt(calls[c].raw, "3: Last Refreshed"),
                             Interval |-> TextAt(calls[c].raw, "4: Interval"),
                             TimePeriod |->
                                 IF "5: Time Period" \in DOMAIN calls[c].raw
                                 THEN <<calls[c].raw["5: Time Period"].v, 0>>
                                 ELSE F0,
                             SeriesType |-> TextAt(calls[c].raw, "6: Series Type"),
                             TimeZone |-> TextAt(calls[c].raw, "7: Time Zone"),
                             OutputSize |-> "",
                             VolumeFactor |-> ""]

\* Two calls returned: one with all seven fields taken from the map, one of a
\* map with keys the switch has no case for.
C26_SevenKeysAssigned ==
    /\ calls[1].pc = "done"
    /\ ~calls[1].panicked
    /\ calls[1].rec.Symbol = "MSFT"
    /\ calls[1].rec.Information = "Moving Average"
    /\ calls[1].rec.Interval = "60min"
    /\ calls[1].rec.TimePeriod = <<60, 0>>
    /\ calls[1].rec.SeriesType = "close"
    /\ calls[2].pc = "done"
    /\ calls[2].kind = "extractMetaData"
    /\ ~calls[2].panicked
    /\ "5. Output Size" \in DOMAIN calls[2].raw

\* The timestamp keys the decoder of kind reads in the document d, each with
\* the top-level key of the series object it stands in.
KeysRead(kind, d, n) ==
    LET Read(sk) ==
            CASE kind = "Indicator" -> sk \in ExpectedKey(d.v, n)
              [] kind \in DailyKinds -> sk = SeriesKey(kind)
              [] OTHER -> HasPrefix(sk, "Time Series")
    IN  IF ~IsObj(d) THEN {}
        ELSE UNION {{<<sk, k>> : k \in DOMAIN d.v[sk].v}
                    : sk \in {sk \in DOMAIN d.v : IsObj(d.v[sk]) /\ Read(sk)}}

\* The instant the timestamp key k spells for the decoder of kind.
Spelled(kind, k) == ParseTime(LayoutOf(kind), Chars[k]).t

\* C27: after a successful decode into a fresh record the sequence has as
\* many entries as the series objects have keys, and for every key as many
\* entries of its instant as there are keys that spell that instant: no key is
\* dropped and none is there twice.
C27_OneEntryPerKey ==
    (/\ Succeeded
     /\ target.kind \in SequenceKinds
     /\ pre = ZeroRecord(target.kind))
        => /\ Len(Sequence(target.kind, target.rec))
                = Cardinality(KeysRead(target.kind, data, name))
           /\ \A p \in KeysRead(target.kind, data, name) :
                 Len(At(Sequence(target.kind, target.rec), Spelled(target.kind, p[2])))
                   = Cardinality({q \in KeysRead(target.kind, data, name) :
                                    Spelled(target.kind, q[2])
                                      = Spelled(target.kind, p[2])})

\* A successful decode into a fresh record of two keys that spell the same
\* instant.
C27_TwoKeysOneInstant ==
    /\ Succeeded
    /\ target.kind \in SequenceKinds
    /\ pre = ZeroRecord(target.kind)
    /\ Len(Sequence(target.kind, target.rec)) = 2
    /\ Sequence(target.kind, target.rec)[1].Timestamp
         = Sequence(target.kind, target.rec)[2].Timestamp

\* C28: a successful intraday decode of a payload with more than one
\* top-level key that starts with "Time Series" leaves one sorted sequence
\* that holds, beside the entries the record held, an entry for every
\* timestamp key of every such key: its length grows by the sum of their entry
\* counts.
C28_SeriesKeysMerged ==
    (/\ Succeeded
     /\ target.kind = "Intraday"
     /\ IsObj(data)
     /\ Cardinality({sk \in DOMAIN data.v : HasPrefix(sk, "Time Series")}) > 1)
        => /\ Sorted(target.rec.TimeSeries)
           /\ Len(target.rec.TimeSeries)
                = Len(pre.TimeSeries) + Cardinality(KeysRead("Intraday", data, name))
           /\ \A p \in KeysRead("Intraday", data, name) :
                 Len(At(target.rec.TimeSeries, Spelled("Intraday", p[2])))
                   = Len(At(pre.TimeSeries, Spelled("Intraday", p[2])))
                     + Cardinality({q \in KeysRead("Intraday", data, name) :
                                      Spelled("Intraday", q[2])
                                        = Spelled("Intraday", p[2])})

\* A successful intraday decode into a fresh record of two "Time Series"
\* keys with one entry each, at different instants.
C28_TwoSeriesDecoded ==
    /\ Succeeded
    /\ target.kind = "Intraday"
    /\ pre = ZeroTimeSeries
    /\ {p[1] : p \in KeysRead("Intraday", data, name)}
         = {"Time Series (1min)", "Time Series (5min)"}
    /\ Len(target.rec.TimeSeries) = 2
    /\ Before(target.rec.TimeSeries[1].Timestamp, target.rec.TimeSeries[2].Timestamp)
    /\ target.rec.TimeSeries[1].Open # target.rec.TimeSeries[2].Open

\* C29: a method of the client that returns an error returns with it the
\* zero value of its record, or nil where it returns a pointer (indicator,
\* crypto and exchange-rate results), whatever the decoder left in the record
\* it decoded into.
C29_ErrorComesWithZeroRecord ==
    (Failed /\ function # "")
        => target.rec = IF target.kind \in {"Indicator", "Crypto", "ExchangeRate"}
                        THEN Nil
                        ELSE ZeroRecord(target.kind)

\* A method has returned an error from a decode that left its record partly
\* filled.
C29_ErrorAfterPartialDecode ==
    /\ Failed
    /\ function \in Functions
    /\ \E out \in Decode(target.kind, ZeroRecord(target.kind), data, name) :
          /\ ~out.panicked
          /\ out.err = err
          /\ out.rec # ZeroRecord(target.kind)

\* d holds a series block for the decoder of kind with nothing malformed in
\* it: every key the decoder reads a series from holds an object, there is one
\* at least, every key of it is a timestamp of the layout, and every entry an
\* object with the members the decoder reads, as quoted numbers (as strings,
\* for crypto).
WellFormedSeries(kind, d, n) ==
    LET SeriesKeys ==
            IF kind = "Indicator" THEN ExpectedKey(d.v, n)
            ELSE {sk \in DOMAIN d.v : HasPrefix(sk, "Time Series")}
        Members(e) ==
            CASE kind = "Intraday" ->
                   /\ OHLCVKeys \subseteq DOMAIN e
                   /\ \A key \in OHLCVKeys :
                         IsStr(e[key]) /\ ~NonNumeric(e[key], key)
              [] kind = "Crypto" ->
                   /\ CryptoValueKeys \subseteq DOMAIN e
                   /\ \A key \in CryptoValueKeys : IsStr(e[key])
              [] OTHER ->
                   \A m \in DOMAIN e :
                      IsStr(e[m]) /\ ParseFloat(Chars[e[m].v]).ok
    IN  /\ SeriesKeys # {}
        /\ \A sk \in SeriesKeys :
              /\ IsObj(d.v[sk])
              /\ \A k \in DOMAIN d.v[sk].v :
                    /\ ParseTime(LayoutOf(kind), Chars[k]).ok
                    /\ IsObj(d.v[sk].v[k])
                    /\ Members(d.v[sk].v[k].v)

\* C30: the intraday, indicator and crypto decoders decode a payload that
\* has a well-formed series block and no "Meta Data", or a "Meta Data" that is
\* no object, without an error: the metadata is left as it was (empty, in a
\* fresh record), and the sequence is sorted and holds, beside the entries the
\* record held, an entry for every timestamp key.
C30_SeriesWithoutMetaData ==
    (/\ pc = "done"
     /\ target.kind \in {"Intraday", "Indicator", "Crypto"}
     /\ IsObj(data)
     /\ ~("Meta Data" \in DOMAIN data.v /\ IsObj(data.v["Meta Data"]))
     /\ WellFormedSeries(target.kind, data, name))
        => /\ Succeeded
           /\ target.rec.MetaData = pre.MetaData
           /\ Sorted(Sequence(target.kind, target.rec))
           /\ Len(Sequence(target.kind, target.rec))
                = Len(Sequence(target.kind, pre))
                  + Cardinality(KeysRead(target.kind, data, name))
           /\ \A p \in KeysRead(target.kind, data, name) :
                 At(Sequence(target.kind, target.rec),
                    Spelled(target.kind, p[2])) # <<>>

\* A payload of two entries without "Meta Data" has been decoded into a fresh
\* record.
C30_TwoEntriesNoMetaData ==
    /\ pc = "done"
    /\ target.kind \in {"Intraday", "Indicator", "Crypto"}
    /\ function = ""
    /\ IsObj(data)
    /\ "Meta Data" \notin DOMAIN data.v
    /\ WellFormedSeries(target.kind, data, name)
    /\ pre = ZeroRecord(target.kind)
    /\ Len(Sequence(target.kind, target.rec)) = 2
    /\ target.rec.MetaData = ZeroRecord(target.kind).MetaData
====
